---- MODULE Spec2Model ----
(***************************************************************************)
(* Model of the Clipboard command (amigazen/Clipboard, Source/clipboard.c). *)
(* One run of the program is a process that executes main and the          *)
(* functions main calls; a step of a process is one call into the          *)
(* clipboard device, iffparse, datatypes or DOS.  The clipboard units and   *)
(* the destination file are shared by the processes.                        *)
(***************************************************************************)
EXTENDS Integers, Sequences, FiniteSets, TLC

VARIABLES clip, dest, pr

vars == <<clip, dest, pr>>

(***************************************************************************)
(* Bounds of the model.                                                     *)
(***************************************************************************)
MaxLen == 2
MaxFaults == 1
MaxUnit == 1

Units == 0..MaxUnit

(***************************************************************************)
(* Bytes, chunk identifiers and 32-bit big-endian words.                    *)
(***************************************************************************)
Min(a, b) == IF a < b THEN a ELSE b

Max(a, b) == IF a > b THEN a ELSE b

MAKE_ID(a, b, c, d) == <<a, b, c, d>>

ID_FORM == MAKE_ID(70, 79, 82, 77)

ID_FTXT == MAKE_ID(70, 84, 88, 84)

ID_CHRS == MAKE_ID(67, 72, 82, 83)

ID_ILBM == MAKE_ID(73, 76, 66, 77)

ID_BODY == MAKE_ID(66, 79, 68, 89)

ID_FONS == MAKE_ID(70, 79, 78, 83)

BE32(n) ==
    <<(n \div 16777216) % 256, (n \div 65536) % 256, (n \div 256) % 256, n % 256>>

Val32(s) == s[1] * 16777216 + s[2] * 65536 + s[3] * 256 + s[4]

Pad(n) == n % 2

Slice(s, off, n) == SubSeq(s, off + 1, off + n)

RECURSIVE Cat(_)
Cat(ss) == IF ss = <<>> THEN <<>> ELSE Head(ss) \o Cat(Tail(ss))

Zeros(n) == [i \in 1..n |-> 0]

(***************************************************************************)
(* The interchange format as iffparse writes it: a chunk is its id, its     *)
(* declared size, its payload and one zero pad byte when the size is odd; a *)
(* FORM is a chunk whose payload is a type and a sequence of chunks.        *)
(***************************************************************************)
Chunk(id, payload) ==
    id \o BE32(Len(payload)) \o payload \o Zeros(Pad(Len(payload)))

Form(type, chunks) == Chunk(ID_FORM, type \o Cat(chunks))

(***************************************************************************)
(* clipboard.device.  A request io belongs to one opened unit.  A read with *)
(* io_ClipID = 0 starts a read session on the clip that is current at that  *)
(* moment (snap); the session ends with the read that returns no byte.  A   *)
(* write with io_ClipID = 0 starts a write session whose bytes (wbuf) stay  *)
(* invisible until CMD_UPDATE makes them the unit's clip in one step.       *)
(***************************************************************************)
NewIO ==
    [ClipID |-> 0, Offset |-> 0, Actual |-> 0, Error |-> 0,
     snap |-> <<>>, wbuf |-> <<>>, rs |-> FALSE, ws |-> FALSE]

Overwrite(base, off, d) ==
    [i \in 1..Max(Len(base), off + Len(d)) |->
        IF i > off /\ i <= off + Len(d) THEN d[i - off]
        ELSE IF i <= Len(base) THEN base[i] ELSE 0]

\* DoIO of CMD_READ for n bytes; out is "ok" or "err".
DevRead(io, content, n, out) ==
    LET snap == IF io.ClipID = 0 THEN content ELSE io.snap
        k == Min(n, Max(Len(snap) - io.Offset, 0))
    IN  IF out = "err"
        THEN [io EXCEPT !.Actual = 0, !.Error = 1]
        ELSE [io EXCEPT !.ClipID = 1, !.snap = snap, !.Actual = k, !.Error = 0,
                        !.Offset = @ + k, !.rs = (k > 0)]

\* The bytes the last successful read delivered.
ReadData(old, new) == Slice(new.snap, old.Offset, new.Actual)

\* DoIO of CMD_WRITE; out is "ok", "err" (rejected) or "short" (one byte
\* fewer accepted than offered, no error reported).
DevWrite(io, data, out) ==
    LET base == IF io.ClipID = 0 \/ ~io.ws THEN <<>> ELSE io.wbuf
        acc == IF out = "short" THEN SubSeq(data, 1, Len(data) - 1) ELSE data
    IN  IF out = "err"
        THEN [io EXCEPT !.Actual = 0, !.Error = 1]
        ELSE [io EXCEPT !.ClipID = 1, !.ws = TRUE, !.Error = 0,
                        !.wbuf = Overwrite(base, io.Offset, acc),
                        !.Actual = Len(acc), !.Offset = @ + Len(acc)]

\* DoIO of CMD_UPDATE: the request after it.
DevUpdate(io, out) ==
    IF out = "err" \/ ~io.ws
    THEN [io EXCEPT !.Error = 1]
    ELSE [io EXCEPT !.Error = 0, !.ws = FALSE]

\* A CMD_UPDATE that leaves the unit's clip as it is.
Committed_Keep(io, content, out) == content

\* DoIO of CMD_UPDATE: the unit's clip after it.
Committed(io, content, out) ==
    IF out = "err" \/ ~io.ws THEN content ELSE io.wbuf

\* A drain that reads once and does not look at io_Actual.
CBReadDone_Once(io, content, out) == DevRead(io, content, 254, out)

\* CBReadDone: reads until io_Actual is zero or an error is reported.  With
\* out = "err" the first read of the loop reports an error.
CBReadDone(io, content, out) ==
    IF out = "err"
    THEN DevRead(io, content, 254, "err")
    ELSE LET snap == IF io.ClipID = 0 THEN content ELSE io.snap
         IN  [io EXCEPT !.ClipID = 1, !.snap = snap, !.Actual = 0, !.Error = 0,
                        !.Offset = Max(@, Len(snap)), !.rs = FALSE]

(***************************************************************************)
(* iffparse.library over the clipboard stream.  A frame of the context      *)
(* stack is [id, type, size, start, scan]: on reading, start is the offset  *)
(* of the chunk's data; on writing, start is the offset of its header and   *)
(* scan the number of data bytes written so far.                            *)
(***************************************************************************)
IFFSIZE_UNKNOWN == -1

Frame(id, type, size, start) ==
    [id |-> id, type |-> type, size |-> size, start |-> start, scan |-> 0]

Pop(stk) == SubSeq(stk, 1, Len(stk) - 1)

Top(stk) == stk[Len(stk)]

\* The declared size in a chunk header, saturated at 2^30: such a size lies
\* beyond the end of every clip of the model.
SizeOf(s) == IF s[1] >= 64 THEN 1073741824 ELSE Val32(s)

\* ParseIFF(iff, IFFPARSE_SCAN) with StopChunk(FTXT, CHRS) registered, on the
\* read session's clip `data` from offset `off`; eoc says whether the end of
\* a context is reported (IFFERR_EOC) or stepped over.
RECURSIVE ParseIFF(_, _, _, _)
ParseIFF(data, off, stk, eoc) ==
    LET n == Len(stk)
        top == Top(stk)
        out(e, o, s) == [err |-> e, off |-> o, stk |-> s]
    IN  IF n > 0 /\ top.id # ID_FORM
        THEN ParseIFF(data, top.start + top.size + Pad(top.size), Pop(stk), eoc)
        ELSE IF n > 0 /\ off >= top.start + top.size
        THEN IF eoc
             THEN out("IFFERR_EOC", top.start + top.size + Pad(top.size), Pop(stk))
             ELSE ParseIFF(data, top.start + top.size + Pad(top.size), Pop(stk), eoc)
        ELSE IF off >= Len(data)
        THEN out(IF n = 0 THEN "IFFERR_EOF" ELSE "IFFERR_MANGLED", off, stk)
        ELSE IF off + 8 > Len(data)
        THEN out("IFFERR_MANGLED", Len(data), stk)
        ELSE LET id == Slice(data, off, 4)
                 size == SizeOf(Slice(data, off + 4, 4))
             IN  IF id = ID_FORM
                 THEN IF off + 12 > Len(data)
                      THEN out("IFFERR_MANGLED", Len(data), stk)
                      ELSE ParseIFF(data, off + 12,
                               Append(stk, Frame(id, Slice(data, off + 8, 4), size, off + 8)),
                               eoc)
                 ELSE LET type == IF n = 0 THEN Zeros(4) ELSE top.type
                          fr == Frame(id, type, size, off + 8)
                      IN  IF type = ID_FTXT /\ id = ID_CHRS
                          THEN out("0", off + 8, Append(stk, fr))
                          ELSE ParseIFF(data, off + 8, Append(stk, fr), eoc)

\* A ReadChunkBytes that does not stop at the end of the chunk.
ReadChunkBytes_ToEnd(data, off, stk, n) ==
    Slice(data, off, Max(0, Min(n, Len(data) - off)))

\* ReadChunkBytes(iff, buffer, n): the bytes of the current chunk it delivers.
ReadChunkBytes(data, off, stk, n) ==
    LET top == Top(stk)
        k == Max(0, Min(n, Min(top.start + top.size, Len(data)) - off))
    IN  Slice(data, off, k)

\* The header PushChunk(iff, type, id, size) writes.
ChunkHeader(type, id, size) ==
    id \o (IF size = IFFSIZE_UNKNOWN THEN <<255, 255, 255, 255>> ELSE BE32(size))
       \o (IF id = ID_FORM THEN type ELSE <<>>)

(***************************************************************************)
(* Inputs: the file named by COPY, as datatypes sees it, and the clips the  *)
(* units may hold when the program starts.                                  *)
(***************************************************************************)
Text(n) == [i \in 1..n |-> 64 + i]

Texts == {Text(n) : n \in 0..MaxLen}

NoFile == [kind |-> "none", text |-> <<>>, iff |-> <<>>]

TextFile(t) == [kind |-> "text", text |-> t, iff |-> Form(ID_FTXT, <<Chunk(ID_CHRS, t)>>)]

Picture == Form(ID_ILBM, <<Chunk(ID_BODY, <<7>>)>>)

PictureFile == [kind |-> "picture", text |-> <<>>, iff |-> Picture]

\* A file of a type whose datatype has no DTM_WRITE method.
OpaqueFile == [kind |-> "opaque", text |-> <<>>, iff |-> <<>>]

MissingFile == [kind |-> "missing", text |-> <<>>, iff |-> <<>>]

CopyFiles == {TextFile(t) : t \in Texts} \cup {PictureFile, OpaqueFile, MissingFile}

\* The chunks of the sample text clips, as <<id, payload>> pairs.
SampleChunks ==
    { <<>>,
      << <<ID_CHRS, <<72>> >> >>,
      << <<ID_CHRS, <<72, 105, 44>> >>, <<ID_FONS, <<1>> >>, <<ID_CHRS, <<87, 33>> >> >>,
      << <<ID_FONS, <<1, 2>> >> >> }

FormOf(type, cs) == Form(type, [k \in 1..Len(cs) |-> Chunk(cs[k][1], cs[k][2])])

TextClips == {FormOf(ID_FTXT, cs) : cs \in SampleChunks}

\* A text form that encloses a form of another type holding a CHRS chunk.
NestedClip ==
    Form(ID_FTXT, <<Form(ID_ILBM, <<Chunk(ID_CHRS, <<66>>)>>), Chunk(ID_CHRS, <<65>>)>>)

\* A clip that ends inside its 12-byte header.
ShortClip == ID_FORM \o BE32(2) \o <<70, 84>>

Clips == TextClips \cup {<<>>, Picture, NestedClip, ShortClip}

NoTemp == [exists |-> FALSE, data |-> <<>>]

Absent == [exists |-> FALSE, data |-> <<>>]

Present(d) == [exists |-> TRUE, data |-> d]

(***************************************************************************)
(* A process: one run of the program.                                       *)
(***************************************************************************)
Procs == {1, 2}

UnitLimit == 255

Idle ==
    [pc |-> "off", copy |-> NoFile, paste |-> FALSE, unit |-> 0,
     listMode |-> FALSE, flushMode |-> FALSE, forceOverwrite |-> FALSE,
     result |-> "RETURN_FAIL", exit |-> "none",
     copyResult |-> "none", pasteResult |-> "none", textResult |-> "none",
     flushResult |-> "none",
     open |-> FALSE, io |-> NewIO, iff |-> "closed", stk |-> <<>>,
     hdr |-> <<>>, isText |-> FALSE, buf |-> <<>>, temp |-> NoTemp,
     res |-> "RETURN_FAIL", pops |-> 0, totalWritten |-> 0,
     rc |-> "0", cnt |-> 0, faults |-> 0, log |-> <<>>, pre |-> <<>>, copyOpened |-> FALSE,
     textOpened |-> FALSE, pasteOpened |-> FALSE, wfail |-> FALSE, rfail |-> FALSE,
     clip0 |-> <<>>, dest0 |-> NoTemp,
     left |-> {}, dropped |-> FALSE, drainErr |-> FALSE,
     lunit |-> 0, hasContent |-> FALSE, formType |-> <<>>, formSize |-> 0,
     textPreview |-> <<>>, textLen |-> 0, unitsWithContent |-> 0,
     entries |-> <<>>, seen |-> <<>>, total |-> -1,
     headerRead |-> FALSE, mappedUnit |-> 0, mappedOld |-> 0, io0 |-> NewIO,
     opens |-> 0, closes |-> 0, iffOpens |-> 0, iffCloses |-> 0,
     tries |-> [copy |-> 0, paste |-> 0, flush |-> 0], call |-> "main",
     trail |-> <<>>, fileOpened |-> FALSE]

Started(c, p, u, l, f, o) ==
    [Idle EXCEPT !.pc = "main", !.copy = c, !.paste = p, !.unit = u,
                 !.listMode = l, !.flushMode = f, !.forceOverwrite = o]

\* The outcomes a call may have: "ok", or a failure of the environment
\* while the process has failures left.
Outs(s, bad) == {"ok"} \cup (IF s.faults < MaxFaults THEN bad ELSE {})

Faulted(s, out) == [s EXCEPT !.faults = IF out = "ok" THEN @ ELSE @ + 1]

\* The process after a device command, with the command added to its log.
Logged(s, cmd, off, len) ==
    [s EXCEPT !.log = Append(@, [cmd |-> cmd, off |-> off, len |-> len,
                                  act |-> s.io.Actual, err |-> s.io.Error])]

Set(i, s) == pr' = [pr EXCEPT ![i] = s]

\* A CloseClipboard that leaves the unit open.
CloseUnit_Keep(s, u) == s

\* CloseClipboard(clipHandle) on unit u.  A unit closed while the read
\* session of the request is not at its end is remembered in `left`.
CloseUnit(s, u) ==
    [s EXCEPT !.open = FALSE, !.closes = @ + 1, !.left = IF s.io.rs THEN @ \cup {u} ELSE @]

\* The unit u was closed by some run in the middle of a read session.
Held(u) == \E j \in Procs : u \in pr[j].left

(***************************************************************************)
(* main                                                                     *)
(***************************************************************************)
\* A unit check that lets every number pass.
BadUnit_Never(unit) == FALSE

\* The unit number is not valid: unit > 255.
BadUnit(unit) == unit > UnitLimit

\* The status main holds after CopyToClipboard returned r.
MainAfterCopy(r, pasteFile) ==
    IF r # "RETURN_OK" /\ pasteFile THEN "RETURN_FAIL" ELSE r

\* A main that exits with the status of the last operation.
MainAfterPaste_Last(result, r) == r

\* The status main holds after PasteFromClipboard returned r.
MainAfterPaste(result, r) == IF r # "RETURN_OK" THEN r ELSE result

Exit(s, r) == [s EXCEPT !.pc = "exit", !.exit = r, !.result = r]

\* A main that does not paste after a copy that failed.
CopyReturn_Stop(s, r) ==
    LET s1 == [s EXCEPT !.copyResult = r, !.result = MainAfterCopy(r, s.paste)]
    IN  IF s.paste /\ r = "RETURN_OK" THEN [s1 EXCEPT !.pc = "ps_check"]
        ELSE Exit(s1, s1.result)

CopyReturn(s, r) ==
    LET s1 == [s EXCEPT !.copyResult = r, !.result = MainAfterCopy(r, s.paste)]
    IN  IF s.paste THEN [s1 EXCEPT !.pc = "ps_check"] ELSE Exit(s1, s1.result)

\* A paste that tries OpenClipboard once more after the open failed.
PasteReturn_Retry(s, r) ==
    IF s.tries.paste = 1 /\ ~s.pasteOpened THEN [s EXCEPT !.pc = "ps_open"]
    ELSE Exit([s EXCEPT !.pasteResult = r], MainAfterPaste(s.result, r))

PasteReturn(s, r) ==
    Exit([s EXCEPT !.pasteResult = r], MainAfterPaste(s.result, r))

\* A main that looks at FLUSH before LIST.
Main_FlushFirst(i) ==
    LET s == pr[i]
    IN  /\ s.pc = "main"
        /\ Set(i, IF BadUnit(s.unit) THEN Exit(s, "RETURN_FAIL")
                  ELSE IF s.copy = NoFile /\ ~s.paste /\ ~s.listMode /\ ~s.flushMode
                       THEN Exit(s, "RETURN_FAIL")
                  ELSE IF s.flushMode THEN [s EXCEPT !.pc = "fl_open"]
                  ELSE IF s.listMode THEN [s EXCEPT !.pc = "ls_open"]
                  ELSE IF s.copy # NoFile THEN [s EXCEPT !.pc = "cp_new"]
                  ELSE [s EXCEPT !.pc = "ps_check"])
        /\ UNCHANGED <<clip, dest>>

Main(i) ==
    LET s == pr[i]
    IN  /\ s.pc = "main"
        /\ Set(i, IF BadUnit(s.unit) THEN Exit(s, "RETURN_FAIL")
                  ELSE IF s.copy = NoFile /\ ~s.paste /\ ~s.listMode /\ ~s.flushMode
                       THEN Exit(s, "RETURN_FAIL")
                  ELSE IF s.listMode THEN [s EXCEPT !.pc = "ls_open"]
                  ELSE IF s.flushMode THEN [s EXCEPT !.pc = "fl_open"]
                  ELSE IF s.copy # NoFile THEN [s EXCEPT !.pc = "cp_new"]
                  ELSE [s EXCEPT !.pc = "ps_check"])
        /\ UNCHANGED <<clip, dest>>

(***************************************************************************)
(* iffparse calls of a process that writes: each returns the process after  *)
(* the call, with the call's return code in rc.                             *)
(***************************************************************************)
StreamWrite(s, data, out) ==
    LET s1 == [s EXCEPT !.io = DevWrite(s.io, data, out)]
    IN  Logged(s1, "CMD_WRITE", s.io.Offset, Len(data))

PushChunk(s, type, id, size, out) ==
    LET s1 == StreamWrite(s, ChunkHeader(type, id, size), out)
    IN  IF out = "ok"
        THEN [s1 EXCEPT !.rc = "0",
                        !.stk = Append(@, Frame(id, type, size, s.io.Offset)),
                        !.trail = Append(@, <<"push", id>>)]
        ELSE [s1 EXCEPT !.rc = "IFFERR_WRITE"]

\* The return code is the number of bytes written, or an error.
WriteChunkBytes(s, data, out) ==
    LET top == Top(s.stk)
        n == IF top.size = IFFSIZE_UNKNOWN THEN Len(data)
             ELSE Min(Len(data), top.size - top.scan)
        s1 == StreamWrite(s, SubSeq(data, 1, n), out)
    IN  [s1 EXCEPT !.cnt = IF out = "ok" THEN n ELSE -1,
                   !.stk[Len(s.stk)].scan = @ + s1.io.Actual]

\* A PopChunk that reports success and leaves the frame on the stack.
PopChunk_Stay(s, out) ==
    [s EXCEPT !.rc = "0",
              !.trail = Append(@, <<"pop", IF s.stk = <<>> THEN <<>> ELSE Top(s.stk).id>>)]

PopChunk(s, out) ==
    IF s.stk = <<>>
    THEN [s EXCEPT !.rc = "IFFERR_EOF", !.trail = Append(@, <<"pop", <<>>>>)]
    ELSE LET top == Top(s.stk)
             s0 == [s EXCEPT !.stk = Pop(@), !.trail = Append(@, <<"pop", top.id>>)]
         IN  IF top.size # IFFSIZE_UNKNOWN
             THEN IF top.scan # top.size THEN [s0 EXCEPT !.rc = "IFFERR_MANGLED"]
                  ELSE IF Pad(top.size) = 1
                  THEN [StreamWrite(s0, <<0>>, out) EXCEPT
                            !.rc = IF out = "ok" THEN "0" ELSE "IFFERR_WRITE"]
                  ELSE [s0 EXCEPT !.rc = "0"]
             ELSE LET size == s.io.Offset - (top.start + 8)
                      s1 == StreamWrite([s0 EXCEPT !.io.Offset = top.start + 4],
                                        BE32(size), out)
                  IN  [s1 EXCEPT !.io.Offset = s.io.Offset,
                                 !.rc = IF out = "ok" THEN "0" ELSE "IFFERR_WRITE"]

\* The outcomes of PopChunk: it writes only a pad byte or an unknown size.
PopOuts(s) ==
    IF s.stk # <<>> /\ (Top(s.stk).size = IFFSIZE_UNKNOWN
                        \/ (Top(s.stk).scan = Top(s.stk).size /\ Pad(Top(s.stk).size) = 1))
    THEN Outs(s, {"err"}) ELSE {"ok"}

(***************************************************************************)
(* CopyToClipboard, the path through the temporary file.                    *)
(***************************************************************************)
\* A test of the write that reads io_Error only.
WriteAccepted_ErrorOnly(io, fileSize) == io.Error = 0

\* The write to the unit counts when it reported no error and took the file.
WriteAccepted(io, fileSize) == io.Error = 0 /\ io.Actual = fileSize

\* A DeleteFile that is left out.
DeleteFile_Not(s) == s

\* DeleteFile(tempFile).
DeleteFile(s) == [s EXCEPT !.temp = NoTemp]

\* A CopyToClipboard that hands every text buffer on, the empty one too.
cp_new_AnyText(i) ==
    LET s == pr[i]
        hasText == s.copy.kind = "text"
    IN  /\ s.pc = "cp_new"
        /\ \E out \in Outs(s, {"err"} \cup (IF hasText THEN {"nomem"} ELSE {})) :
             LET s1 == Faulted(s, out)
             IN  Set(i, IF s.copy.kind = "missing" \/ out = "err"
                        THEN CopyReturn(s1, "RETURN_FAIL")
                        ELSE IF hasText /\ out = "ok"
                        THEN [s1 EXCEPT !.pc = "ct_check", !.buf = s.copy.text]
                        ELSE IF s.copy.kind = "opaque"
                        THEN CopyReturn(s1, "RETURN_FAIL")
                        ELSE [s1 EXCEPT !.pc = "cp_save"])
        /\ UNCHANGED <<clip, dest>>

cp_new(i) ==
    LET s == pr[i]
        hasText == s.copy.kind = "text" /\ Len(s.copy.text) > 0
    IN  /\ s.pc = "cp_new"
        /\ \E out \in Outs(s, {"err"} \cup (IF hasText THEN {"nomem"} ELSE {})) :
             LET s1 == Faulted(s, out)
             IN  Set(i, IF s.copy.kind = "missing" \/ out = "err"
                        THEN CopyReturn(s1, "RETURN_FAIL")
                        ELSE IF hasText /\ out = "ok"
                        THEN [s1 EXCEPT !.pc = "ct_check", !.buf = s.copy.text]
                        ELSE IF s.copy.kind = "opaque"
                        THEN CopyReturn(s1, "RETURN_FAIL")
                        ELSE [s1 EXCEPT !.pc = "cp_save"])
        /\ UNCHANGED <<clip, dest>>

cp_save(i) ==
    LET s == pr[i]
    IN  /\ s.pc = "cp_save"
        /\ \E out \in Outs(s, {"err"}) :
             LET s1 == Faulted(s, out)
             IN  Set(i, IF out = "err" THEN CopyReturn(s1, "RETURN_FAIL")
                        ELSE [s1 EXCEPT !.pc = "cp_open", !.temp = Present(s.copy.iff),
                                        !.res = "RETURN_FAIL"])
        /\ UNCHANGED <<clip, dest>>

cp_open(i) ==
    LET s == pr[i]
    IN  /\ s.pc = "cp_open"
        /\ \E out \in Outs(s, {"err"}) :
             LET s1 == [Faulted(s, out) EXCEPT !.tries.copy = @ + 1]
             IN  Set(i, IF out = "err"
                        THEN CopyReturn(DeleteFile(s1), "RETURN_FAIL")
                        ELSE [s1 EXCEPT !.pc = "cp_temp", !.open = TRUE,
                                        !.opens = @ + 1, !.io = NewIO,
                                        !.copyOpened = TRUE, !.pre = clip[s.unit]])
        /\ UNCHANGED <<clip, dest>>

\* Open, Seek, AllocMem and Read of the temporary file.
cp_temp(i) ==
    LET s == pr[i]
        fileSize(out) == IF out = "seek" THEN -1 ELSE Len(s.temp.data)
    IN  /\ s.pc = "cp_temp"
        /\ \E out \in Outs(s, {"err", "seek", "nomem", "short"}) :
             LET s1 == Faulted(s, out)
             IN  Set(i, IF out = "err"
                        THEN CopyReturn([DeleteFile(s1) EXCEPT !.open = FALSE,
                                                               !.closes = @ + 1],
                                        "RETURN_FAIL")
                        ELSE IF fileSize(out) > 0 /\ out = "ok"
                        THEN [s1 EXCEPT !.pc = "cp_write", !.buf = s.temp.data]
                        ELSE [s1 EXCEPT !.pc = "cp_close"])
        /\ UNCHANGED <<clip, dest>>

cp_write(i) ==
    LET s == pr[i]
    IN  /\ s.pc = "cp_write"
        /\ \E out \in Outs(s, {"err", "short"}) :
             LET s1 == StreamWrite([Faulted(s, out) EXCEPT
                                       !.io.Offset = 0, !.io.ClipID = 0, !.io.Error = 0],
                                   s.buf, out)
             IN  Set(i, [s1 EXCEPT !.pc = IF WriteAccepted(s1.io, Len(s.buf))
                                          THEN "cp_update" ELSE "cp_close"])
        /\ UNCHANGED <<clip, dest>>

cp_update(i) ==
    LET s == pr[i]
    IN  /\ s.pc = "cp_update"
        /\ \E out \in Outs(s, {"err"}) :
             LET s1 == Logged([Faulted(s, out) EXCEPT !.io = DevUpdate(s.io, out)],
                              "CMD_UPDATE", 0, 0)
             IN  /\ Set(i, [s1 EXCEPT !.pc = "cp_close",
                                      !.res = IF s1.io.Error = 0 THEN "RETURN_OK"
                                              ELSE "RETURN_FAIL"])
                 /\ clip' = [clip EXCEPT ![s.unit] = Committed(s.io, @, out)]
        /\ UNCHANGED dest

\* Close and DeleteFile of the temporary file, CloseClipboard, return.
cp_close(i) ==
    LET s == pr[i]
    IN  /\ s.pc = "cp_close"
        /\ Set(i, CopyReturn([DeleteFile(s) EXCEPT !.open = FALSE, !.closes = @ + 1],
                             s.res))
        /\ UNCHANGED <<clip, dest>>

(***************************************************************************)
(* CopyTextToClipboard                                                      *)
(***************************************************************************)
TextReturn(s, r) == CopyReturn([s EXCEPT !.textResult = r], r)

\* The argument check and AllocIFF.
ct_check(i) ==
    LET s == pr[i]
    IN  /\ s.pc = "ct_check"
        /\ \E out \in Outs(s, {"nomem"}) :
             LET s1 == [Faulted(s, out) EXCEPT !.pre = clip[s.unit]]
             IN  Set(i, IF Len(s.buf) = 0 \/ out = "nomem"
                        THEN TextReturn(s1, "RETURN_FAIL")
                        ELSE [s1 EXCEPT !.pc = "ct_open", !.res = "RETURN_FAIL"])
        /\ UNCHANGED <<clip, dest>>

ct_open(i) ==
    LET s == pr[i]
    IN  /\ s.pc = "ct_open"
        /\ \E out \in Outs(s, {"err"}) :
             LET s1 == [Faulted(s, out) EXCEPT !.tries.copy = @ + 1]
             IN  Set(i, IF out = "err" THEN TextReturn(s1, "RETURN_FAIL")
                        ELSE [s1 EXCEPT !.pc = "ct_openiff", !.open = TRUE, !.opens = @ + 1,
                                        !.textOpened = TRUE, !.io = NewIO])
        /\ UNCHANGED <<clip, dest>>

\* InitIFFasClip and OpenIFF(iffh, IFFF_WRITE).
ct_openiff(i) ==
    LET s == pr[i]
    IN  /\ s.pc = "ct_openiff"
        /\ \E out \in Outs(s, {"err"}) :
             LET s1 == Faulted(s, out)
             IN  Set(i, IF out = "err"
                        THEN TextReturn([s1 EXCEPT !.open = FALSE, !.closes = @ + 1], "RETURN_FAIL")
                        ELSE [s1 EXCEPT !.pc = "ct_pushform", !.iff = "write", !.iffOpens = @ + 1,
                                        !.stk = <<>>, !.io.ClipID = 0, !.io.Offset = 0])
        /\ UNCHANGED <<clip, dest>>

ct_pushform(i) ==
    LET s == pr[i]
    IN  /\ s.pc = "ct_pushform"
        /\ \E out \in Outs(s, {"err", "short"}) :
             LET s1 == PushChunk(Faulted(s, out), ID_FTXT, ID_FORM, IFFSIZE_UNKNOWN, out)
             IN  Set(i, [s1 EXCEPT !.pc = IF s1.rc = "0" THEN "ct_pushchrs"
                                          ELSE "ct_closeiff"])
        /\ UNCHANGED <<clip, dest>>

ct_pushchrs(i) ==
    LET s == pr[i]
    IN  /\ s.pc = "ct_pushchrs"
        /\ \E out \in Outs(s, {"err", "short"}) :
             LET s1 == PushChunk(Faulted(s, out), Zeros(4), ID_CHRS, Len(s.buf), out)
             IN  Set(i, IF s1.rc = "0" THEN [s1 EXCEPT !.pc = "ct_write"]
                        ELSE [s1 EXCEPT !.pc = "ct_errpop", !.pops = 1])
        /\ UNCHANGED <<clip, dest>>

ct_write(i) ==
    LET s == pr[i]
    IN  /\ s.pc = "ct_write"
        /\ \E out \in Outs(s, {"err", "short"}) :
             LET s1 == WriteChunkBytes(Faulted(s, out), s.buf, out)
             IN  Set(i, IF s1.cnt = Len(s.buf) THEN [s1 EXCEPT !.pc = "ct_popchrs"]
                        ELSE [s1 EXCEPT !.pc = "ct_errpop", !.pops = 2])
        /\ UNCHANGED <<clip, dest>>

ct_popchrs(i) ==
    LET s == pr[i]
    IN  /\ s.pc = "ct_popchrs"
        /\ \E out \in PopOuts(s) :
             LET s1 == PopChunk(Faulted(s, out), out)
             IN  Set(i, IF s1.rc = "0" THEN [s1 EXCEPT !.pc = "ct_popform"]
                        ELSE [s1 EXCEPT !.pc = "ct_errpop", !.pops = 1])
        /\ UNCHANGED <<clip, dest>>

ct_popform(i) ==
    LET s == pr[i]
    IN  /\ s.pc = "ct_popform"
        /\ \E out \in PopOuts(s) :
             LET s1 == PopChunk(Faulted(s, out), out)
             IN  Set(i, [s1 EXCEPT !.pc = "ct_closeiff",
                                   !.res = IF s1.rc = "0" THEN "RETURN_OK"
                                           ELSE "RETURN_FAIL"])
        /\ UNCHANGED <<clip, dest>>

\* The PopChunk calls of the error paths; their return codes are not read.
ct_errpop(i) ==
    LET s == pr[i]
    IN  /\ s.pc = "ct_errpop"
        /\ \E out \in PopOuts(s) :
             LET s1 == PopChunk(Faulted(s, out), out)
             IN  Set(i, [s1 EXCEPT !.pops = @ - 1,
                                   !.pc = IF s.pops > 1 THEN "ct_errpop" ELSE "ct_closeiff"])
        /\ UNCHANGED <<clip, dest>>

\* CloseIFF on a stream opened for writing sends CMD_UPDATE.
ct_closeiff(i) ==
    LET s == pr[i]
    IN  /\ s.pc = "ct_closeiff"
        /\ \E out \in Outs(s, {"err"}) :
             LET s1 == Logged([Faulted(s, out) EXCEPT !.io = DevUpdate(s.io, out)],
                              "CMD_UPDATE", 0, 0)
             IN  /\ Set(i, [s1 EXCEPT !.pc = "ct_close", !.iff = "closed", !.iffCloses = @ + 1, !.stk = <<>>])
                 /\ clip' = [clip EXCEPT ![s.unit] = Committed(s.io, @, out)]
        /\ UNCHANGED dest

\* CloseClipboard, FreeIFF, return.
ct_close(i) ==
    LET s == pr[i]
    IN  /\ s.pc = "ct_close"
        /\ Set(i, TextReturn([s EXCEPT !.open = FALSE, !.closes = @ + 1], s.res))
        /\ UNCHANGED <<clip, dest>>

(***************************************************************************)
(* PasteFromClipboard                                                       *)
(***************************************************************************)
HeaderLen == 12

bufferSize == 4096

\* What the header structure on the stack may hold before the read.
Garbage == {Zeros(HeaderLen), ID_FORM \o BE32(0) \o ID_FTXT}

\* The header structure after a read that delivered `data`.
Header(data, g) == [k \in 1..HeaderLen |-> IF k <= Len(data) THEN data[k] ELSE g[k]]

\* A header test that does not look at the number of bytes read.
IsTextHeader_AnyLength(actual, hdr) ==
    Slice(hdr, 0, 4) = ID_FORM /\ Slice(hdr, 8, 4) = ID_FTXT

\* The test for text: at least 8 bytes read, FORM and FTXT in the header.
IsTextHeader(actual, hdr) ==
    actual >= 8 /\ Slice(hdr, 0, 4) = ID_FORM /\ Slice(hdr, 8, 4) = ID_FTXT

\* A scan that is also left at the end of a context.
ScanEnds_AtEOC(error) == error # "0"

\* The scan loop is left when ParseIFF returned an error other than EOC.
ScanEnds(error) == error # "IFFERR_EOC" /\ error # "0"

\* The status of the scan after ParseIFF returned an error other than EOC.
AfterParse(error, result) ==
    IF error # "IFFERR_EOF" THEN "RETURN_FAIL" ELSE "RETURN_OK"

\* The clip a read session of request io reads.
Session(io, content) == IF io.ClipID = 0 THEN content ELSE io.snap

\* What datatypes accepts as a clipboard object: an IFF FORM.
IsIFF(data) == Len(data) >= HeaderLen /\ Slice(data, 0, 4) = ID_FORM

\* A check of the destination that does not look at FORCE.
Refused_NoForce(forceOverwrite, exists) == exists

\* The paste is refused: no FORCE, and Open(fileName, MODE_OLDFILE) succeeds.
Refused(forceOverwrite, exists) == ~forceOverwrite /\ exists

\* The existence check without FORCE.
ps_check(i) ==
    LET s == pr[i]
    IN  /\ s.pc = "ps_check"
        /\ Set(i, IF Refused(s.forceOverwrite, dest.exists)
                  THEN PasteReturn(s, "RETURN_FAIL")
                  ELSE [s EXCEPT !.pc = "ps_open", !.res = "RETURN_FAIL",
                                 !.totalWritten = 0, !.isText = FALSE])
        /\ UNCHANGED <<clip, dest>>

\* OpenClipboard(unit).  A unit that a run left in the middle of a read
\* session is in an indeterminate state: the open may fail ("busy").
ps_open(i) ==
    LET s == pr[i]
    IN  /\ s.pc = "ps_open"
        /\ \E out \in Outs(s, {"err"}) \cup (IF Held(s.unit) THEN {"busy"} ELSE {}) :
             LET s0 == IF out = "busy" THEN s ELSE Faulted(s, out)
                 s1 == [s0 EXCEPT !.tries.paste = @ + 1]
             IN  Set(i, IF out # "ok" THEN PasteReturn(s1, "RETURN_FAIL")
                        ELSE [s1 EXCEPT !.pc = "ps_header", !.open = TRUE, !.opens = @ + 1, !.io = NewIO,
                                        !.pasteOpened = TRUE])
        /\ UNCHANGED <<clip, dest>>

\* The read of the 12-byte header and the test for FORM FTXT.
ps_header(i) ==
    LET s == pr[i]
        io0 == [s.io EXCEPT !.Offset = 0, !.ClipID = 0]
    IN  /\ s.pc = "ps_header"
        /\ \E out \in Outs(s, {"err"}) :
             LET io1 == DevRead(io0, clip[s.unit], HeaderLen, out)
                 data == IF out = "err" THEN <<>> ELSE ReadData(io0, io1)
             IN  \E g \in (IF io1.Actual < HeaderLen THEN Garbage ELSE {Zeros(HeaderLen)}) :
                   LET s1 == Logged([Faulted(s, out) EXCEPT !.io = io1,
                                                            !.hdr = Header(data, g)],
                                    "CMD_READ", 0, HeaderLen)
                   IN  Set(i, [s1 EXCEPT !.pc = "ps_drain",
                                         !.isText = IsTextHeader(io1.Actual, s1.hdr)])
        /\ UNCHANGED <<clip, dest>>

ps_drain(i) ==
    LET s == pr[i]
    IN  /\ s.pc = "ps_drain"
        /\ \E out \in Outs(s, {"err"}) :
             LET s1 == Logged([Faulted(s, out) EXCEPT
                                  !.io = CBReadDone(s.io, clip[s.unit], out)],
                              "CMD_READ", s.io.Offset, 254)
             IN  Set(i, [s1 EXCEPT !.pc = IF s.isText THEN "ps_t_openiff"
                                          ELSE "ps_n_openiff",
                                   !.drainErr = @ \/ out = "err"])
        /\ UNCHANGED <<clip, dest>>

\* AllocIFF, InitIFFasClip and OpenIFF(iffh, IFFF_READ); on failure
\* CloseClipboard and return.
OpenForRead(s, out, next) ==
    IF out = "ok"
    THEN [s EXCEPT !.pc = next, !.iff = "read", !.iffOpens = @ + 1, !.stk = <<>>,
                   !.io.ClipID = 0, !.io.Offset = 0, !.dropped = @ \/ s.io.rs]
    ELSE PasteReturn(CloseUnit(s, s.unit), "RETURN_FAIL")

ps_t_openiff(i) ==
    LET s == pr[i]
    IN  /\ s.pc = "ps_t_openiff"
        /\ \E out \in Outs(s, {"nomem", "err"}) :
             Set(i, OpenForRead(Faulted(s, out), out, "ps_t_stop"))
        /\ UNCHANGED <<clip, dest>>

ps_t_stop(i) ==
    LET s == pr[i]
    IN  /\ s.pc = "ps_t_stop"
        /\ \E out \in Outs(s, {"err"}) :
             Set(i, [Faulted(s, out) EXCEPT !.pc = IF out = "ok" THEN "ps_t_file"
                                                   ELSE "ps_bail"])
        /\ UNCHANGED <<clip, dest>>

\* Open(fileName, MODE_NEWFILE) and AllocMem of the read buffer.
ps_t_file(i) ==
    LET s == pr[i]
    IN  /\ s.pc = "ps_t_file"
        /\ \E out \in Outs(s, {"err", "nomem"}) :
             /\ Set(i, [Faulted(s, out) EXCEPT !.pc = IF out = "ok" THEN "ps_t_parse"
                                                      ELSE "ps_bail",
                                               !.fileOpened = out # "err"])
             /\ dest' = IF out = "err" THEN dest ELSE Present(<<>>)
        /\ UNCHANGED clip

\* A CloseIFF that is left out.
CloseRead_Skip(s) == s

\* CloseIFF on a stream opened for reading reads the session to its end.
CloseRead(s) ==
    [s EXCEPT !.iff = "closed", !.iffCloses = @ + 1, !.stk = <<>>, !.io.rs = FALSE]

\* The error exits after OpenIFF: CloseIFF, FreeIFF, CloseClipboard, return.
ps_bail(i) ==
    LET s == pr[i]
    IN  /\ s.pc = "ps_bail"
        /\ Set(i, PasteReturn(CloseUnit(CloseRead(s), s.unit), "RETURN_FAIL"))
        /\ UNCHANGED <<clip, dest>>

ps_t_parse(i) ==
    LET s == pr[i]
        snap == Session(s.io, clip[s.unit])
    IN  /\ s.pc = "ps_t_parse"
        /\ \E out \in Outs(s, {"err"}), eoc \in BOOLEAN :
             LET r == IF out = "err"
                      THEN [err |-> "IFFERR_READ", off |-> s.io.Offset, stk |-> s.stk]
                      ELSE ParseIFF(snap, s.io.Offset, s.stk, eoc)
                 s1 == [Faulted(s, out) EXCEPT
                           !.rc = r.err, !.stk = r.stk, !.io.ClipID = 1,
                           !.io.snap = snap, !.io.Offset = r.off,
                           !.io.rs = out = "err" \/ r.off < Len(snap)]
             IN  Set(i, IF ScanEnds(r.err)
                        THEN [s1 EXCEPT !.pc = "ps_t_done",
                                        !.res = AfterParse(r.err, s.res)]
                        ELSE IF r.err = "IFFERR_EOC" THEN s1
                        ELSE [s1 EXCEPT !.pc = "ps_t_read"])
        /\ UNCHANGED <<clip, dest>>

ps_t_read(i) ==
    LET s == pr[i]
    IN  /\ s.pc = "ps_t_read"
        /\ \E out \in Outs(s, {"err"}) :
             LET data == IF out = "err" THEN <<>>
                         ELSE ReadChunkBytes(s.io.snap, s.io.Offset, s.stk, bufferSize)
                 s1 == [Faulted(s, out) EXCEPT
                           !.cnt = IF out = "err" THEN -1 ELSE Len(data),
                           !.buf = data, !.io.Offset = @ + Len(data)]
             IN  Set(i, IF s1.cnt > 0 THEN [s1 EXCEPT !.pc = "ps_t_fwrite"]
                        ELSE IF s1.cnt < 0
                        THEN [s1 EXCEPT !.pc = "ps_t_done", !.res = "RETURN_FAIL",
                                        !.rfail = TRUE]
                        ELSE [s1 EXCEPT !.pc = "ps_t_parse"])
        /\ UNCHANGED <<clip, dest>>

\* Write(outputFile, readBuffer, bytesRead): after a failed write the inner
\* loop is left with bytesRead > 0, and the scan goes on with ParseIFF.
ps_t_fwrite(i) ==
    LET s == pr[i]
    IN  /\ s.pc = "ps_t_fwrite"
        /\ \E out \in Outs(s, {"err", "short"}) :
             LET put == IF out = "ok" THEN s.buf
                        ELSE IF out = "short" THEN SubSeq(s.buf, 1, Len(s.buf) - 1)
                        ELSE <<>>
                 s1 == Faulted(s, out)
             IN  /\ Set(i, IF out = "ok"
                           THEN [s1 EXCEPT !.pc = "ps_t_read",
                                           !.totalWritten = @ + s.cnt]
                           ELSE [s1 EXCEPT !.pc = "ps_t_parse", !.res = "RETURN_FAIL",
                                           !.wfail = TRUE])
                 /\ dest' = [dest EXCEPT !.data = @ \o put]
        /\ UNCHANGED clip

\* FreeMem, Close(outputFile), CloseIFF, FreeIFF, CloseClipboard, return.
ps_t_done(i) ==
    LET s == pr[i]
    IN  /\ s.pc = "ps_t_done"
        /\ Set(i, PasteReturn(CloseUnit(CloseRead(s), s.unit), s.res))
        /\ UNCHANGED <<clip, dest>>

ps_n_openiff(i) ==
    LET s == pr[i]
    IN  /\ s.pc = "ps_n_openiff"
        /\ \E out \in Outs(s, {"nomem", "err"}) :
             Set(i, OpenForRead(Faulted(s, out), out, "ps_n_new"))
        /\ UNCHANGED <<clip, dest>>

\* NewDTObject(NULL, DTA_SourceType, DTST_CLIPBOARD, DTA_Handle, iffh): the
\* object holds the clip of the read session it starts.
ps_n_new(i) ==
    LET s == pr[i]
        snap == Session(s.io, clip[s.unit])
    IN  /\ s.pc = "ps_n_new"
        /\ \E out \in Outs(s, {"err"}) :
             LET s1 == [Faulted(s, out) EXCEPT !.io.ClipID = 1, !.io.snap = snap,
                                               !.io.rs = Len(snap) > 0]
             IN  Set(i, IF out = "ok" /\ IsIFF(snap)
                        THEN [s1 EXCEPT !.pc = "ps_n_save", !.buf = snap]
                        ELSE [s1 EXCEPT !.pc = "ps_bail"])
        /\ UNCHANGED <<clip, dest>>

\* SaveDTObjectA(dtObject, NULL, NULL, fileName, DTWM_IFF, FALSE) and
\* DisposeDTObject, which closes the IFF stream and the unit.
ps_n_save(i) ==
    LET s == pr[i]
    IN  /\ s.pc = "ps_n_save"
        /\ \E out \in Outs(s, {"err"}) :
             /\ Set(i, PasteReturn(CloseUnit(CloseRead(Faulted(s, out)), s.unit),
                                   IF out = "ok" THEN "RETURN_OK" ELSE "RETURN_FAIL"))
             /\ dest' = IF out = "ok" THEN Present(s.buf) ELSE dest
        /\ UNCHANGED clip

(***************************************************************************)
(* FlushClipboard                                                           *)
(***************************************************************************)
FlushReturn(s, r) == Exit([s EXCEPT !.flushResult = r], r)

\* The unit check and OpenClipboard(unit).
fl_open(i) ==
    LET s == pr[i]
    IN  /\ s.pc = "fl_open"
        /\ IF BadUnit(s.unit)
           THEN Set(i, FlushReturn(s, "RETURN_FAIL"))
           ELSE \E out \in Outs(s, {"err"}) :
                  LET s1 == [Faulted(s, out) EXCEPT !.tries.flush = @ + 1]
                  IN  Set(i, IF out = "err"
                             THEN FlushReturn(s1, "RETURN_FAIL")
                             ELSE [s1 EXCEPT !.pc = "fl_write", !.open = TRUE,
                                             !.opens = @ + 1, !.io = NewIO,
                                             !.res = "RETURN_FAIL"])
        /\ UNCHANGED <<clip, dest>>

fl_write(i) ==
    LET s == pr[i]
    IN  /\ s.pc = "fl_write"
        /\ \E out \in Outs(s, {"err"}) :
             LET s1 == StreamWrite([Faulted(s, out) EXCEPT
                                       !.io.Offset = 0, !.io.ClipID = 0, !.io.Error = 0],
                                   <<>>, out)
             IN  Set(i, [s1 EXCEPT !.pc = IF s1.io.Error = 0 THEN "fl_update"
                                          ELSE "fl_close"])
        /\ UNCHANGED <<clip, dest>>

fl_update(i) ==
    LET s == pr[i]
    IN  /\ s.pc = "fl_update"
        /\ \E out \in Outs(s, {"err"}) :
             LET s1 == Logged([Faulted(s, out) EXCEPT !.io = DevUpdate(s.io, out)],
                              "CMD_UPDATE", 0, 0)
             IN  /\ Set(i, [s1 EXCEPT !.pc = "fl_close",
                                      !.res = IF s1.io.Error = 0 THEN "RETURN_OK"
                                              ELSE "RETURN_FAIL"])
                 /\ clip' = [clip EXCEPT ![s.unit] = Committed(s.io, @, out)]
        /\ UNCHANGED dest

fl_close(i) ==
    LET s == pr[i]
    IN  /\ s.pc = "fl_close"
        /\ Set(i, FlushReturn([s EXCEPT !.open = FALSE, !.closes = @ + 1], s.res))
        /\ UNCHANGED <<clip, dest>>

(***************************************************************************)
(* FormIDToUnit, the router from a FORM type to a unit.  A ULONG is kept as *)
(* two 16-bit halves so that the arithmetic wraps at 2^32 as in the code.   *)
(***************************************************************************)
RECURSIVE Xor(_, _)
Xor(a, b) ==
    IF a = 0 THEN b
    ELSE IF b = 0 THEN a
    ELSE (((a % 2) + (b % 2)) % 2) + 2 * Xor(a \div 2, b \div 2)

\* A hash that shifts the product and not the word it was made from.
Hash_ShiftAfter(formID) ==
    LET lo == Xor(formID[1], formID[2] * 256)
        hi == Xor(formID[3], formID[4] * 256)
        mlo == (lo * 209) % 65536
        mhi == ((hi * 209) + ((lo * 209) \div 65536)) % 65536
    IN  <<mhi, Xor(mlo, mhi)>>

\* The hash of version 1.2 as <<high half, low half>>: the four bytes spread
\* over a ULONG, then hash = (hash * 209) ^ (hash >> 16).
Hash(formID) ==
    LET byte0 == formID[1]
        byte1 == formID[2]
        byte2 == formID[3]
        byte3 == formID[4]
        lo == Xor(byte0, byte1 * 256)
        hi == Xor(byte2, byte3 * 256)
        mlo == (lo * 209) % 65536
        mhi == ((hi * 209) + ((lo * 209) \div 65536)) % 65536
    IN  <<mhi, Xor(mlo, hi)>>

\* A router that takes the hash modulo 256 and does not move it off unit 0.
FormIDToUnit_Mod256(formID) == Hash(formID)[2] % 256

\* The router of version 1.2: (hash % 255) + 1, with 65536 % 255 = 1 for the
\* high half.
FormIDToUnit(formID) ==
    LET h == Hash(formID)
    IN  ((((h[1] % 255) * (65536 % 255)) + (h[2] % 255)) % 255) + 1

\* The router of version 1.0: a polynomial hash with multiplier 31.
FormIDToUnit_v10(formID) ==
    LET h0 == formID[1]
        h1 == Xor(h0 * 31, formID[2])
        h2 == Xor(h1 * 31, formID[3])
        h3 == Xor(h2 * 31, formID[4])
    IN  (h3 % 255) + 1

(***************************************************************************)
(* ListClipboards.  The loop runs over the units 0..255; the units above    *)
(* MaxUnit do not exist: OpenClipboard fails on each of them and the loop   *)
(* goes on, which is taken as one step up to the end of the loop.           *)
(***************************************************************************)
PreviewMax == 40

\* A listing that opens the IFF stream for writing.
ListOpenMode_Write == "write"

\* The mode of OpenIFF in the listing: IFFF_READ.
ListOpenMode == "read"

\* A header test that does not look at the first four bytes.
HasContent_AnyHeader(actual, error, cbuff) == actual = HeaderLen /\ error = 0

\* The unit is listed: 12 bytes read without error, and they begin with FORM.
HasContent(actual, error, cbuff) ==
    actual = HeaderLen /\ error = 0 /\ Slice(cbuff, 0, 4) = ID_FORM

\* A replacement that leaves the bytes from 127 on as they are.
Sanitise_ControlOnly(c) ==
    IF c < 32 THEN (IF c = 10 \/ c = 13 \/ c = 9 THEN 32 ELSE 46) ELSE c

\* The replacement of the bytes of the preview that do not print.
Sanitise(c) ==
    IF c < 32 \/ c >= 127
    THEN (IF c = 10 \/ c = 13 \/ c = 9 THEN 32 ELSE 46)
    ELSE c

\* A preview size without the limit of 40.
PreviewSize_Whole(size) == size

\* The number of bytes asked of ReadChunkBytes for the preview.
PreviewSize(size) == IF size > PreviewMax THEN PreviewMax ELSE size

\* A line that is flagged whatever the unit.
Entry_Flagged(s) ==
    [unit |-> s.lunit, type |-> s.formType, size |-> s.formSize,
     mapped |-> FormIDToUnit(s.formType), flag |-> "[mapped]",
     preview |-> IF s.textLen > 0 THEN s.textPreview ELSE <<>>]

\* The line printed for a unit with content.
Entry(s) ==
    [unit |-> s.lunit, type |-> s.formType, size |-> s.formSize,
     mapped |-> FormIDToUnit(s.formType),
     flag |-> IF FormIDToUnit(s.formType) # s.lunit THEN "maps to" ELSE "[mapped]",
     preview |-> IF s.textLen > 0 THEN s.textPreview ELSE <<>>]

\* OpenClipboard(unit), or the end of the loop.
ls_open(i) ==
    LET s == pr[i]
    IN  /\ s.pc = "ls_open"
        /\ IF s.lunit > UnitLimit
           THEN Set(i, [s EXCEPT !.pc = "ls_total"])
           ELSE IF s.lunit > MaxUnit
           THEN Set(i, [s EXCEPT !.lunit = UnitLimit + 1])
           ELSE \E out \in Outs(s, {"err"}) \cup (IF Held(s.lunit) THEN {"busy"} ELSE {}) :
                  LET s1 == IF out = "busy" THEN s ELSE Faulted(s, out)
                  IN  Set(i, IF out # "ok"
                             THEN [s1 EXCEPT !.lunit = @ + 1,
                                             !.seen = Append(@, [unit |-> s.lunit,
                                                                 opened |-> FALSE,
                                                                 read |-> FALSE,
                                                                 ended |-> FALSE])]
                             ELSE [s1 EXCEPT !.pc = "ls_header", !.open = TRUE, !.opens = @ + 1,
                                             !.io = NewIO, !.hasContent = FALSE,
                                             !.headerRead = FALSE,
                                             !.formType = Zeros(4), !.formSize = 0,
                                             !.textPreview = <<>>, !.textLen = 0])
        /\ UNCHANGED <<clip, dest>>

\* The read of 12 bytes and the test for a FORM header.
ls_header(i) ==
    LET s == pr[i]
        io0 == [s.io EXCEPT !.Offset = 0, !.Error = 0, !.ClipID = 0]
    IN  /\ s.pc = "ls_header"
        /\ \E out \in Outs(s, {"err"}) :
             LET io1 == DevRead(io0, clip[s.lunit], HeaderLen, out)
                 data == IF out = "err" THEN <<>> ELSE ReadData(io0, io1)
             IN  \E g \in (IF io1.Actual < HeaderLen THEN Garbage ELSE {Zeros(HeaderLen)}) :
                   LET cbuff == Header(data, g)
                       s1 == Logged([Faulted(s, out) EXCEPT !.io = io1, !.hdr = cbuff],
                                    "CMD_READ", 0, HeaderLen)
                   IN  Set(i, IF io1.Actual = HeaderLen /\ io1.Error = 0
                              THEN IF HasContent(io1.Actual, io1.Error, cbuff)
                                   THEN [s1 EXCEPT !.headerRead = TRUE,
                                                   !.formType = Slice(cbuff, 8, 4),
                                                   !.formSize = Val32(Slice(cbuff, 4, 4)),
                                                   !.hasContent = TRUE,
                                                   !.pc = IF Slice(cbuff, 8, 4) = ID_FTXT
                                                          THEN "ls_openiff" ELSE "ls_drain"]
                                   ELSE [s1 EXCEPT !.headerRead = TRUE, !.pc = "ls_drain"]
                              ELSE [s1 EXCEPT !.headerRead = FALSE, !.pc = "ls_print"])
        /\ UNCHANGED <<clip, dest>>

\* AllocIFF, InitIFFasClip and OpenIFF(iffh, IFFF_READ).
ls_openiff(i) ==
    LET s == pr[i]
    IN  /\ s.pc = "ls_openiff"
        /\ \E out \in Outs(s, {"nomem", "err"}) :
             LET s1 == Faulted(s, out)
             IN  Set(i, IF out = "ok"
                        THEN [s1 EXCEPT !.pc = "ls_stop", !.iff = ListOpenMode, !.iffOpens = @ + 1,
                                        !.stk = <<>>, !.io.ClipID = 0, !.io.Offset = 0,
                                        !.dropped = @ \/ s.io.rs]
                        ELSE [s1 EXCEPT !.pc = "ls_drain"])
        /\ UNCHANGED <<clip, dest>>

\* StopChunk(iffh, ID_FTXT, ID_CHRS).
ls_stop(i) ==
    LET s == pr[i]
    IN  /\ s.pc = "ls_stop"
        /\ \E out \in Outs(s, {"err"}) :
             Set(i, [Faulted(s, out) EXCEPT !.pc = IF out = "ok" THEN "ls_parse"
                                                   ELSE "ls_closeiff"])
        /\ UNCHANGED <<clip, dest>>

\* The one call of ParseIFF, CurrentChunk and the size of the preview.
ls_parse(i) ==
    LET s == pr[i]
        snap == Session(s.io, clip[s.lunit])
    IN  /\ s.pc = "ls_parse"
        /\ \E out \in Outs(s, {"err"}), eoc \in BOOLEAN :
             LET r == IF out = "err"
                      THEN [err |-> "IFFERR_READ", off |-> s.io.Offset, stk |-> s.stk]
                      ELSE ParseIFF(snap, s.io.Offset, s.stk, eoc)
                 s1 == [Faulted(s, out) EXCEPT
                           !.rc = r.err, !.stk = r.stk, !.io.ClipID = 1,
                           !.io.snap = snap, !.io.Offset = r.off,
                           !.io.rs = out = "err" \/ r.off < Len(snap)]
                 previewSize == IF r.err = "0" THEN PreviewSize(Top(r.stk).size) ELSE 0
             IN  Set(i, IF r.err = "0" /\ previewSize > 0
                        THEN [s1 EXCEPT !.pc = "ls_read", !.cnt = previewSize]
                        ELSE [s1 EXCEPT !.pc = "ls_closeiff"])
        /\ UNCHANGED <<clip, dest>>

\* AllocMem of the preview, ReadChunkBytes and the replacement loop.
ls_read(i) ==
    LET s == pr[i]
    IN  /\ s.pc = "ls_read"
        /\ \E out \in Outs(s, {"nomem", "err"}) :
             LET data == IF out # "ok" THEN <<>>
                         ELSE ReadChunkBytes(s.io.snap, s.io.Offset, s.stk, s.cnt)
                 textLen == IF out = "err" THEN -1 ELSE Len(data)
             IN  Set(i, [Faulted(s, out) EXCEPT
                            !.pc = "ls_closeiff", !.textLen = textLen,
                            !.textPreview = [k \in 1..Len(data) |-> Sanitise(data[k])],
                            !.io.Offset = @ + Len(data)])
        /\ UNCHANGED <<clip, dest>>

\* CloseIFF: a stream opened for reading is read to its end, a stream opened
\* for writing is committed with CMD_UPDATE.
ls_closeiff(i) ==
    LET s == pr[i]
        s1 == IF s.iff = "write"
              THEN Logged([s EXCEPT !.io = DevUpdate(s.io, "ok")], "CMD_UPDATE", 0, 0)
              ELSE s
    IN  /\ s.pc = "ls_closeiff"
        /\ Set(i, [CloseRead(s1) EXCEPT !.pc = "ls_drain"])
        /\ clip' = [clip EXCEPT ![s.lunit] = IF s.iff = "write"
                                              THEN Committed(s.io, @, "ok") ELSE @]
        /\ UNCHANGED dest

\* CBReadDone(ioreq).
ls_drain(i) ==
    LET s == pr[i]
    IN  /\ s.pc = "ls_drain"
        /\ \E out \in Outs(s, {"err"}) :
             LET s1 == Logged([Faulted(s, out) EXCEPT
                                  !.io = CBReadDone(s.io, clip[s.lunit], out)],
                              "CMD_READ", s.io.Offset, 254)
             IN  Set(i, [s1 EXCEPT !.pc = "ls_print", !.drainErr = @ \/ out = "err"])
        /\ UNCHANGED <<clip, dest>>

\* The line of the unit when it has content, CloseClipboard, the next unit.
ls_print(i) ==
    LET s == pr[i]
        s1 == IF s.hasContent
              THEN [s EXCEPT !.entries = Append(@, Entry(s)),
                             !.unitsWithContent = @ + 1]
              ELSE s
    IN  /\ s.pc = "ls_print"
        /\ Set(i, [CloseUnit(s1, s.lunit) EXCEPT
                      !.pc = "ls_open", !.lunit = @ + 1,
                      !.seen = Append(@, [unit |-> s.lunit, opened |-> TRUE,
                                          read |-> s.headerRead,
                                          ended |-> ~s.io.rs])])
        /\ UNCHANGED <<clip, dest>>

\* The total, and the return to main, which exits with the result.
ls_total(i) ==
    LET s == pr[i]
    IN  /\ s.pc = "ls_total"
        /\ Set(i, Exit([s EXCEPT !.total = s.unitsWithContent], "RETURN_OK"))
        /\ UNCHANGED <<clip, dest>>

(***************************************************************************)
(* The runs: one process, any request, from any sample clip.                *)
(***************************************************************************)
\* The command lines: COPY, PASTE, CLIPUNIT, FLUSH and FORCE in every
\* combination, and LIST alone or with COPY, PASTE or FLUSH.
Requests ==
    {Started(c, p, u, FALSE, f, o) :
        c \in CopyFiles \cup {NoFile}, p \in BOOLEAN,
        u \in Units \cup {UnitLimit + 1}, f \in BOOLEAN, o \in BOOLEAN}
      \cup {Started(c, p, u, TRUE, f, FALSE) :
                c \in {NoFile, PictureFile}, p \in BOOLEAN,
                u \in {0, UnitLimit + 1}, f \in BOOLEAN}

InitClips == {[u \in Units |-> IF u = t THEN c ELSE Picture] : t \in Units, c \in Clips}

\* A process that remembers the clips and the file it started from.
From(r, c, d) == [r EXCEPT !.clip0 = c, !.dest0 = d]

Init ==
    /\ clip \in InitClips
    /\ dest \in {Absent, Present(<<9>>)}
    /\ \E r \in Requests :
         /\ r.paste \/ ~r.forceOverwrite
         /\ pr = [i \in Procs |-> IF i = 1 THEN From(r, clip, dest) ELSE Idle]

ListStep(i) ==
    \/ ls_open(i) \/ ls_header(i) \/ ls_openiff(i) \/ ls_stop(i) \/ ls_parse(i)
    \/ ls_read(i) \/ ls_closeiff(i) \/ ls_drain(i) \/ ls_print(i) \/ ls_total(i)

CopyStep(i) ==
    \/ cp_new(i) \/ cp_save(i) \/ cp_open(i) \/ cp_temp(i)
    \/ cp_write(i) \/ cp_update(i) \/ cp_close(i)

TextStep(i) ==
    \/ ct_check(i) \/ ct_open(i) \/ ct_openiff(i) \/ ct_pushform(i)
    \/ ct_pushchrs(i) \/ ct_write(i) \/ ct_popchrs(i) \/ ct_popform(i)
    \/ ct_errpop(i) \/ ct_closeiff(i) \/ ct_close(i)

PasteStep(i) ==
    \/ ps_check(i) \/ ps_open(i) \/ ps_header(i) \/ ps_drain(i)
    \/ ps_t_openiff(i) \/ ps_t_stop(i) \/ ps_t_file(i) \/ ps_bail(i)
    \/ ps_t_parse(i) \/ ps_t_read(i) \/ ps_t_fwrite(i) \/ ps_t_done(i)
    \/ ps_n_openiff(i) \/ ps_n_new(i) \/ ps_n_save(i)

FlushStep(i) == fl_open(i) \/ fl_write(i) \/ fl_update(i) \/ fl_close(i)

Next ==
    \E i \in Procs :
        Main(i) \/ CopyStep(i) \/ TextStep(i) \/ PasteStep(i) \/ FlushStep(i)
            \/ ListStep(i)

Spec == Init /\ [][Next]_vars

(***************************************************************************)
(* The text functions called directly: CopyTextToClipboard with any text of *)
(* the bound, the empty one included, then PasteFromClipboard with FORCE.   *)
(***************************************************************************)
TextCall(t, u) ==
    [Started(TextFile(t), TRUE, u, FALSE, FALSE, TRUE) EXCEPT !.pc = "ct_check", !.buf = t]

InitText ==
    /\ clip \in InitClips
    /\ dest \in {Absent, Present(<<9>>)}
    /\ \E t \in Texts, u \in Units :
         pr = [i \in Procs |-> IF i = 1 THEN From(TextCall(t, u), clip, dest) ELSE Idle]

NextText == \E i \in Procs : TextStep(i) \/ PasteStep(i)

SpecText == InitText /\ [][NextText]_vars

(***************************************************************************)
(* Two runs on unit 0: process 1, the writer, copies a file; process 2, the *)
(* reader, pastes; their steps interleave.                                  *)
(***************************************************************************)
ConcClips == {<<>>, FormOf(ID_FTXT, << <<ID_CHRS, <<72>> >> >>), Picture}

ConcFiles == {TextFile(Text(1)), PictureFile}

InitConc ==
    /\ \E c \in ConcClips : clip = [u \in Units |-> IF u = 0 THEN c ELSE <<>>]
    /\ dest = Absent
    /\ \E f \in ConcFiles :
         pr = [i \in Procs |->
                 IF i = 1
                 THEN From(Started(f, FALSE, 0, FALSE, FALSE, FALSE), clip, dest)
                 ELSE From(Started(NoFile, TRUE, 0, FALSE, FALSE, TRUE), clip, dest)]

NextConc == \E i \in Procs : Main(i) \/ CopyStep(i) \/ TextStep(i) \/ PasteStep(i)

SpecConc == InitConc /\ [][NextConc]_vars

(***************************************************************************)
(* A run with LIST, then a run with PASTE in which no call fails.  Process  *)
(* 1 lists, or exits at once for want of arguments; process 2 starts when   *)
(* process 1 has exited.                                                    *)
(***************************************************************************)
\* The chunks of the text clips that only the listing is given.
ListChunks ==
    { << <<ID_CHRS, [k \in 1..(PreviewMax + 2) |-> 65 + (k % 26)]>> >>,
      << <<ID_CHRS, <<10, 13, 9, 0, 31, 127, 200, 32, 126, 65>> >> >>,
      << <<ID_CHRS, <<>> >>, <<ID_CHRS, <<87, 33>> >> >> }

\* A clip of 14 bytes that is no IFF FORM.
PlainClip == ID_CHRS \o BE32(6) \o <<72, 105, 44, 87, 33, 10>>

\* The sample clips, the text clips above, the clip that is no FORM, and an
\* empty FORM DTYP, the type that FormIDToUnit sends to unit 1.
ListClips ==
    Clips \cup {FormOf(ID_FTXT, cs) : cs \in ListChunks}
          \cup {PlainClip, Form(MAKE_ID(68, 84, 89, 80), <<>>)}

ListInitClips ==
    {[u \in Units |-> IF u = t THEN c ELSE Picture] : t \in Units, c \in ListClips}
        \cup {[u \in Units |-> <<>>]}

InitList ==
    /\ clip \in ListInitClips
    /\ dest \in {Absent, Present(<<9>>)}
    /\ \E l \in BOOLEAN, u \in Units, o \in BOOLEAN :
         pr = [i \in Procs |->
                 IF i = 1
                 THEN From(Started(NoFile, FALSE, 0, l, FALSE, FALSE), clip, dest)
                 ELSE From([Started(NoFile, TRUE, u, FALSE, FALSE, o) EXCEPT
                               !.pc = "wait", !.faults = MaxFaults], clip, dest)]

\* The shell starts the next command when the one before it has exited.
StartNext(i) ==
    /\ pr[i].pc = "wait"
    /\ \A j \in Procs : j < i => pr[j].pc = "exit"
    /\ Set(i, [pr[i] EXCEPT !.pc = "main"])
    /\ UNCHANGED <<clip, dest>>

NextList == \E i \in Procs : StartNext(i) \/ Main(i) \/ ListStep(i) \/ PasteStep(i)

SpecList == InitList /\ [][NextList]_vars

(***************************************************************************)
(* A flush, then a run with LIST or with PASTE and FORCE in which no call   *)
(* fails.  Process 1 is FlushClipboard called with a unit, a run with FLUSH *)
(* or a run with a unit above 255; process 2 starts when it has exited.     *)
(***************************************************************************)
InitFlush ==
    /\ clip \in InitClips
    /\ dest \in {Absent, Present(<<9>>)}
    /\ \E p1 \in {[Started(NoFile, FALSE, u, FALSE, TRUE, FALSE) EXCEPT
                       !.pc = "fl_open", !.call = "FlushClipboard"] :
                       u \in Units \cup {UnitLimit + 1}}
                  \cup {Started(NoFile, FALSE, u, FALSE, TRUE, FALSE) : u \in Units}
                  \cup {Started(NoFile, p, UnitLimit + 1, l, f, FALSE) :
                            p \in BOOLEAN, l \in BOOLEAN, f \in BOOLEAN},
          p2 \in {Started(NoFile, FALSE, 0, TRUE, FALSE, FALSE)}
                  \cup {Started(NoFile, TRUE, u, FALSE, FALSE, TRUE) : u \in Units} :
         pr = [i \in Procs |->
                 IF i = 1 THEN From(p1, clip, dest)
                 ELSE From([p2 EXCEPT !.pc = "wait", !.faults = MaxFaults], clip, dest)]

NextFlush ==
    \E i \in Procs :
        StartNext(i) \/ Main(i) \/ FlushStep(i) \/ ListStep(i) \/ PasteStep(i)

SpecFlush == InitFlush /\ [][NextFlush]_vars

(***************************************************************************)
(* Texts of every length, the empty one included: CopyTextToClipboard       *)
(* called with the text, or a run with COPY of a text file that holds it.   *)
(***************************************************************************)
InitZero ==
    /\ clip \in InitClips
    /\ dest \in {Absent, Present(<<9>>)}
    /\ \E t \in Texts, u \in Units, direct \in BOOLEAN :
         LET run == Started(TextFile(t), FALSE, u, FALSE, FALSE, FALSE)
             p1 == IF direct
                   THEN [run EXCEPT !.pc = "ct_check", !.buf = t,
                                    !.call = "CopyTextToClipboard"]
                   ELSE run
         IN  pr = [i \in Procs |-> IF i = 1 THEN From(p1, clip, dest) ELSE Idle]

NextZero == \E i \in Procs : Main(i) \/ CopyStep(i) \/ TextStep(i)

SpecZero == InitZero /\ [][NextZero]_vars

(***************************************************************************)
(* The scan of a text paste to its end: a run with PASTE alone, from any    *)
(* clip.  The run is one sequential program whose calls all return, so a    *)
(* step that can be taken is taken.  Twice as many calls may fail as in the *)
(* other runs: the count of failures starts at -MaxFaults.                  *)
(***************************************************************************)
InitScan ==
    /\ clip \in InitClips
    /\ dest \in {Absent, Present(<<9>>)}
    /\ \E u \in Units, o \in BOOLEAN :
         pr = [i \in Procs |->
                 IF i = 1
                 THEN From([Started(NoFile, TRUE, u, FALSE, FALSE, o) EXCEPT
                               !.faults = -MaxFaults], clip, dest)
                 ELSE Idle]

NextScan == \E i \in Procs : Main(i) \/ PasteStep(i)

SpecScan == InitScan /\ [][NextScan]_vars /\ WF_vars(NextScan)

(***************************************************************************)
(* CBReadDone read by read: a caller reads the 12-byte header of a unit,    *)
(* then the loop of CBReadDone sends one CMD_READ of 254 bytes per step.    *)
(* DoIO returns for every request, so a loop that can go on does go on.     *)
(***************************************************************************)
DrainLength == 254

\* A loop test that looks at io_Error only.
ReadDone_ErrorOnly(actual, error) == error # 0

\* The test that leaves the loop of CBReadDone.
ReadDone(actual, error) == actual = 0 \/ error # 0

\* The lengths of the unit contents that are drained.
DrainLens ==
    {0, 1, HeaderLen, HeaderLen + 1, DrainLength - 1, DrainLength, DrainLength + 1,
     HeaderLen + DrainLength, 2 * DrainLength, HeaderLen + 2 * DrainLength,
     HeaderLen + 2 * DrainLength + 80}

\* The caller's read of the header, which starts the read session.
rd_header(i) ==
    LET s == pr[i]
        io0 == [s.io EXCEPT !.Offset = 0, !.ClipID = 0]
    IN  /\ s.pc = "rd_header"
        /\ \E out \in Outs(s, {"err"}) :
             LET io1 == DevRead(io0, clip[s.unit], HeaderLen, out)
             IN  Set(i, [Faulted(s, out) EXCEPT !.pc = "rd_read", !.io = io1, !.io0 = io1])
        /\ UNCHANGED <<clip, dest>>

\* One pass of the loop: DoIO, then the test.
rd_read(i) ==
    LET s == pr[i]
    IN  /\ s.pc = "rd_read"
        /\ \E out \in Outs(s, {"err"}) :
             LET io1 == DevRead(s.io, clip[s.unit], DrainLength, out)
             IN  Set(i, [Faulted(s, out) EXCEPT
                            !.io = io1,
                            !.drainErr = @ \/ out = "err",
                            !.pc = IF ReadDone(io1.Actual, io1.Error)
                                   THEN "rd_done" ELSE "rd_read"])
        /\ UNCHANGED <<clip, dest>>

InitDrain ==
    /\ clip \in {[u \in Units |-> IF u = t THEN Zeros(n) ELSE <<>>] :
                    t \in Units, n \in DrainLens}
    /\ dest = Absent
    /\ \E u \in Units, f \in {0, MaxFaults} :
         pr = [i \in Procs |->
                 IF i = 1
                 THEN From([Idle EXCEPT !.pc = "rd_header", !.unit = u, !.open = TRUE, !.opens = @ + 1,
                                        !.faults = f], clip, dest)
                 ELSE Idle]

NextDrain == \E i \in Procs : rd_header(i) \/ rd_read(i)

SpecDrain == InitDrain /\ [][NextDrain]_vars /\ WF_vars(NextDrain)

(***************************************************************************)
(* The router called with tags made of sample bytes, by two callers.        *)
(***************************************************************************)
RouterBytes == {0, 32, 70, 84, 88, 255}

Tags == {<<a, b, c, d>> : a \in RouterBytes, b \in RouterBytes,
                          c \in RouterBytes, d \in RouterBytes}

\* mappedUnit = FormIDToUnit(formType), with the router of either version.
rt_map(i) ==
    LET s == pr[i]
    IN  /\ s.pc = "rt_map"
        /\ Set(i, [s EXCEPT !.pc = "rt_done",
                            !.mappedUnit = FormIDToUnit(s.formType),
                            !.mappedOld = FormIDToUnit_v10(s.formType)])
        /\ UNCHANGED <<clip, dest>>

InitRouter ==
    /\ clip = [u \in Units |-> <<>>]
    /\ dest = Absent
    /\ \E t \in Tags, same \in BOOLEAN :
         pr = [i \in Procs |->
                 [Idle EXCEPT !.pc = "rt_map",
                              !.formType = IF i = 1 \/ same THEN t ELSE ID_FTXT]]

NextRouter == \E i \in Procs : rt_map(i)

SpecRouter == InitRouter /\ [][NextRouter]_vars

(***************************************************************************)
(* What a paste is expected to produce from a clip, told from the clip's    *)
(* structure and not from the scan.                                         *)
(***************************************************************************)
KnownTexts == SampleChunks \cup ListChunks \cup { << <<ID_CHRS, t>> >> : t \in Texts }

IsTextClip(c) == c = NestedClip \/ \E cs \in KnownTexts : FormOf(ID_FTXT, cs) = c

TextOf(cs) == Cat([k \in 1..Len(cs) |-> IF cs[k][1] = ID_CHRS THEN cs[k][2] ELSE <<>>])

Expected(c) ==
    IF c = NestedClip THEN <<65>>
    ELSE TextOf(CHOOSE cs \in KnownTexts : FormOf(ID_FTXT, cs) = c)

\* The status and the destination of a paste that sees clip c in full.
PasteOf(c, d0) ==
    IF IsTextClip(c) THEN <<"RETURN_OK", Present(Expected(c))>>
    ELSE IF IsIFF(c) THEN <<"RETURN_OK", Present(c)>>
    ELSE <<"RETURN_FAIL", d0>>

HasCmd(log, cmd) == \E k \in 1..Len(log) : log[k].cmd = cmd

(***************************************************************************)
(* Properties.                                                              *)
(***************************************************************************)
\* C1: when CopyTextToClipboard returns failure after it opened the unit,
\* the unit's clip is the clip from before the call.
C1_FailedTextCopyKeepsClip ==
    \A i \in Procs :
        pr[i].textResult = "RETURN_FAIL" /\ pr[i].textOpened
            => clip[pr[i].unit] = pr[i].pre

\* C2: on the temporary-file path of CopyToClipboard, CMD_UPDATE is issued
\* only as the second command, after one CMD_WRITE at offset 0 that reported
\* no error and accepted the whole file; a call that returns without such a
\* write has issued no CMD_UPDATE, has closed the unit and has left the
\* unit's clip as it was.
C2_CommitOnlyAfterFullWrite ==
    \A i \in Procs :
        LET s == pr[i]
            full(e) == e.cmd = "CMD_WRITE" /\ e.off = 0 /\ e.err = 0
                       /\ e.act = e.len /\ e.len = Len(s.copy.iff)
        IN  s.copyOpened
            => /\ \A k \in 1..Len(s.log) :
                    s.log[k].cmd = "CMD_UPDATE" => k = 2 /\ full(s.log[1])
               /\ s.copyResult # "none" /\ ~(Len(s.log) >= 1 /\ full(s.log[1]))
                    => /\ ~HasCmd(s.log, "CMD_UPDATE")
                       /\ s.open => s.pasteOpened
                       /\ clip[s.unit] = s.pre

\* C2 witness: a call that returned after a short write, without a commit.
C2_Witness ==
    \E i \in Procs :
        /\ pr[i].copyOpened /\ pr[i].copyResult = "RETURN_FAIL"
        /\ Len(pr[i].log) = 1
        /\ pr[i].log[1].err = 0 /\ pr[i].log[1].act < pr[i].log[1].len
        /\ clip[pr[i].unit] = pr[i].pre

\* C3: a paste that runs beside a copy to the same unit ends as a paste that
\* saw the whole clip from before the copy's commit, or as one that saw the
\* whole clip of the unit after it (no call of either run failing).
C3_ReaderSeesOldOrNew ==
    LET w == pr[1]
        r == pr[2]
    IN  r.pc = "exit" /\ r.faults = 0 /\ w.faults = 0
            => \E c \in {r.clip0[r.unit], clip[r.unit]} :
                  <<r.pasteResult, dest>> = PasteOf(c, r.dest0)

C5_SuccessfulTextCopyHoldsForm ==
    \A i \in Procs :
        pr[i].textResult = "RETURN_OK"
            => LET t == pr[i].copy.text
                   L == Len(t)
               IN  clip[pr[i].unit] =
                       ID_FORM \o BE32(4 + 8 + L + Pad(L)) \o ID_FTXT
                          \o ID_CHRS \o BE32(L) \o t \o Zeros(Pad(L))

\* C6: a paste that returns success from a unit holding a FORM FTXT leaves in
\* the destination the payloads of the FTXT's CHRS chunks, in order, and
\* nothing else.
C6_PasteWritesChrsPayloads ==
    \A i \in Procs :
        pr[i].pasteResult = "RETURN_OK" /\ IsTextClip(clip[pr[i].unit])
            => dest = Present(Expected(clip[pr[i].unit]))

\* C7: a text paste in which a write to the destination failed or
\* ReadChunkBytes returned an error returns failure.
C7_ScanErrorIsReturned ==
    \A i \in Procs :
        pr[i].pasteResult # "none" /\ (pr[i].wfail \/ pr[i].rfail)
            => pr[i].pasteResult = "RETURN_FAIL"

\* C8: a run with PASTE only exits with the status PasteFromClipboard
\* returned.
C8_PasteOnlyExit ==
    \A i \in Procs :
        LET s == pr[i]
            pasteOnly == s.copy = NoFile /\ s.paste /\ ~s.listMode /\ ~s.flushMode
        IN  s.pc = "exit" /\ pasteOnly /\ s.pasteResult # "none"
                => s.exit = s.pasteResult

\* C9: a run with COPY and PASTE that performs them (no LIST or FLUSH, a
\* valid unit) exits with success exactly when CopyToClipboard and
\* PasteFromClipboard both returned success.
C9_CopyPasteExit ==
    \A i \in Procs :
        LET s == pr[i]
            both == s.copy # NoFile /\ s.paste /\ ~s.listMode /\ ~s.flushMode
        IN  s.pc = "exit" /\ both /\ s.unit <= UnitLimit
                => (s.exit = "RETURN_OK"
                       <=> s.copyResult = "RETURN_OK" /\ s.pasteResult = "RETURN_OK")

\* C9 witness: the copy failed, the paste succeeded, the run exits failure.
C9_Witness ==
    \E i \in Procs :
        /\ pr[i].pc = "exit" /\ ~pr[i].flushMode
        /\ pr[i].copyResult = "RETURN_FAIL" /\ pr[i].pasteResult = "RETURN_OK"
        /\ pr[i].exit = "RETURN_FAIL"

\* C10: a paste that opened a unit without content returns failure and
\* leaves the destination as it was: absent, or with its old bytes.
C10_EmptyUnitPasteFails ==
    \A i \in Procs :
        LET s == pr[i]
        IN  s.pasteResult # "none" /\ s.pasteOpened /\ clip[s.unit] = <<>>
                => s.pasteResult = "RETURN_FAIL" /\ dest = s.dest0

\* C10 witness: the header read of an empty unit left FORM and FTXT from the
\* stack in the header, and the paste failed without touching a present file.
C10_Witness ==
    \E i \in Procs :
        /\ pr[i].pasteResult = "RETURN_FAIL" /\ pr[i].pasteOpened
        /\ clip[pr[i].unit] = <<>>
        /\ pr[i].faults = 0
        /\ IsTextHeader_AnyLength(0, pr[i].hdr)
        /\ dest = Present(<<9>>) /\ dest = pr[i].dest0

\* C11: without FORCE a paste to a file that exists returns failure, has not
\* opened the unit and leaves the file as it was; with FORCE the existence
\* check lets the paste go on to OpenClipboard.
C11_ForceCheck ==
    /\ [](\A i \in Procs :
            LET s == pr[i]
            IN  s.pasteResult # "none" /\ ~s.forceOverwrite /\ s.dest0.exists
                    => /\ s.pasteResult = "RETURN_FAIL"
                       /\ ~s.pasteOpened
                       /\ dest = s.dest0)
    /\ [][\A i \in Procs :
            pr[i].pc = "ps_check" /\ pr[i].forceOverwrite /\ pr'[i] # pr[i]
                => pr'[i].pc = "ps_open"]_vars

\* C11 witness: a paste without FORCE to a present file, after a copy that
\* succeeded, has returned failure and left the file alone.
C11_Witness ==
    \E i \in Procs :
        /\ pr[i].copyResult = "RETURN_OK" /\ pr[i].pasteResult = "RETURN_FAIL"
        /\ ~pr[i].forceOverwrite /\ pr[i].dest0.exists
        /\ ~pr[i].pasteOpened /\ dest = pr[i].dest0

FirstOf(cs) ==
    IF \E k \in 1..Len(cs) : cs[k][1] = ID_CHRS
    THEN cs[CHOOSE k \in 1..Len(cs) :
                /\ cs[k][1] = ID_CHRS
                /\ \A j \in 1..(k - 1) : cs[j][1] # ID_CHRS][2]
    ELSE <<>>

\* The payload of the first FTXT CHRS chunk of the clip c.
FirstText(c) ==
    IF c = NestedClip THEN <<65>>
    ELSE IF IsTextClip(c) THEN FirstOf(CHOOSE cs \in KnownTexts : FormOf(ID_FTXT, cs) = c)
    ELSE <<>>

\* The byte shown for the byte b: a space for newline, carriage return and
\* tab, a period for the other bytes outside 32..126.
Shown(b) ==
    IF b \in {9, 10, 13} THEN 32
    ELSE IF b \in 32..126 THEN b
    ELSE 46

ShownText(t, n) == [k \in 1..Min(n, Len(t)) |-> Shown(t[k])]

\* The outcomes of a paste of clip c with no list before it and no call
\* failing: a clip that ends inside the 12-byte header is told from what the
\* header structure held before, and the text path truncates the file.
PasteAlone(c, d0, force) ==
    IF Refused(force, d0.exists) THEN {<<"RETURN_FAIL", d0>>}
    ELSE {PasteOf(c, d0)}
            \cup {<<"RETURN_FAIL", Present(<<>>)>> :
                    g \in {h \in Garbage : /\ Len(c) < HeaderLen
                                           /\ IsTextHeader(Len(c), Header(c, h))}}

\* C12: a listing sends no CMD_WRITE and no CMD_UPDATE, and every unit holds
\* what it held before the listing.
C12_ListReadsOnly ==
    \A i \in Procs :
        LET s == pr[i]
        IN  s.listMode => /\ \A k \in 1..Len(s.log) : s.log[k].cmd = "CMD_READ"
                          /\ clip = s.clip0

\* C12 witness: a listing has returned after it printed a unit with a
\* preview, and the units are as before.
C12_Witness ==
    \E i \in Procs :
        /\ pr[i].listMode /\ pr[i].pc = "exit" /\ pr[i].total > 0
        /\ \E k \in 1..Len(pr[i].entries) : pr[i].entries[k].preview # <<>>
        /\ Len(pr[i].log) > MaxUnit
        /\ clip = pr[i].clip0

\* C13: every unit the listing opened was closed with its read session at
\* its end.
C13_ListDrainsEveryUnit ==
    \A i \in Procs :
        \A k \in 1..Len(pr[i].seen) :
            pr[i].seen[k].opened => pr[i].seen[k].ended

\* C15: a paste in which no call fails, run after a listing whose drains
\* met no read error, returns a status and leaves a destination that the
\* paste of the same unit has with no listing before it; so does the paste
\* with no listing before it.
C15_PasteAfterList ==
    \A i \in Procs :
        LET s == pr[i]
        IN  s.paste /\ s.pasteResult # "none" /\ (\A j \in Procs : ~pr[j].drainErr)
                => <<s.pasteResult, dest>>
                       \in PasteAlone(s.clip0[s.unit], s.dest0, s.forceOverwrite)

\* C15 witness: the listing showed the preview of a text unit, and the paste
\* of that unit after it has returned the whole text.
C15_Witness ==
    \E i \in Procs, j \in Procs :
        /\ pr[i].listMode /\ pr[i].pc = "exit"
        /\ pr[j].paste /\ pr[j].pasteResult = "RETURN_OK"
        /\ \E k \in 1..Len(pr[i].entries) :
             /\ pr[i].entries[k].unit = pr[j].unit
             /\ Len(pr[i].entries[k].preview) = PreviewMax
        /\ Len(dest.data) > PreviewMax
        /\ dest = Present(Expected(clip[pr[j].unit]))

\* C18: a unit has a line exactly when it was opened, 12 bytes were read from
\* it without error and they begin with FORM; the lines are in ascending unit
\* order, one per unit, with the type and the declared size of the header;
\* the total is the number of lines.
C18_ListEntries ==
    \A i \in Procs :
        LET s == pr[i]
            listed(u) == \E e \in 1..Len(s.entries) : s.entries[e].unit = u
        IN  /\ \A k \in 1..Len(s.seen) :
                 LET u == s.seen[k].unit
                     c == s.clip0[u]
                 IN  listed(u) <=> /\ s.seen[k].opened
                                   /\ s.seen[k].read
                                   /\ Len(c) >= HeaderLen
                                   /\ Slice(c, 0, 4) = ID_FORM
            /\ \A e \in 1..Len(s.entries) :
                 LET u == s.entries[e].unit
                 IN  /\ \E k \in 1..Len(s.seen) : s.seen[k].unit = u
                     /\ e > 1 => s.entries[e - 1].unit < u
                     /\ s.entries[e].type = Slice(s.clip0[u], 8, 4)
                     /\ s.entries[e].size = Val32(Slice(s.clip0[u], 4, 4))
            /\ s.listMode /\ s.pc = "exit"
                 => /\ s.total = Len(s.entries)
                    /\ \A u \in Units : \E k \in 1..Len(s.seen) : s.seen[k].unit = u

\* C18 witness: a listing of two units has returned with a line for unit 1
\* and none for unit 0, which holds no FORM.
C18_Witness ==
    \E i \in Procs :
        /\ pr[i].listMode /\ pr[i].pc = "exit" /\ pr[i].total = 1
        /\ pr[i].entries[1].unit = 1
        /\ pr[i].entries[1].type = ID_ILBM
        /\ pr[i].seen[1].opened /\ pr[i].seen[1].read
        /\ pr[i].clip0[0] = PlainClip

\* C19: every byte of a preview is in 32..126: a space for a newline, a
\* carriage return or a tab of the text, a period for any other byte below
\* 32 or from 127 on, and the byte of the text itself otherwise.
C19_PreviewPrintable ==
    \A i \in Procs :
        \A e \in 1..Len(pr[i].entries) :
            LET p == pr[i].entries[e].preview
                t == FirstText(pr[i].clip0[pr[i].entries[e].unit])
            IN  \A k \in 1..Len(p) :
                    /\ p[k] \in 32..126
                    /\ k <= Len(t)
                    /\ p[k] = Shown(t[k])

\* C19 witness: the preview of the text with control bytes and bytes from
\* 127 on.
C19_Witness ==
    \E i \in Procs :
        \E e \in 1..Len(pr[i].entries) :
            pr[i].entries[e].preview = <<32, 32, 32, 46, 46, 46, 46, 32, 126, 65>>

\* C20 as stated: the preview of a text unit listed with no call failing is
\* the first min(40, N) bytes of all its CHRS payloads in stream order, as
\* shown.
C20_PreviewOfWholeText ==
    \A i \in Procs :
        \A e \in 1..Len(pr[i].entries) :
            LET c == pr[i].clip0[pr[i].entries[e].unit]
            IN  pr[i].faults = 0 /\ IsTextClip(c) /\ c # NestedClip
                    => pr[i].entries[e].preview = ShownText(Expected(c), PreviewMax)

\* C20 amended: a preview that is printed is the first min(40, N1) bytes of
\* the payload of the unit's first FTXT CHRS chunk, as shown, and never
\* longer than 40; a text unit without nested forms, listed with no call
\* failing, has exactly this preview.
C20_PreviewOfFirstChunk ==
    \A i \in Procs :
        \A e \in 1..Len(pr[i].entries) :
            LET c == pr[i].clip0[pr[i].entries[e].unit]
                p == pr[i].entries[e].preview
            IN  /\ Len(p) <= PreviewMax
                /\ p # <<>> => p = ShownText(FirstText(c), PreviewMax)
                /\ pr[i].faults = 0 /\ IsTextClip(c) /\ c # NestedClip
                        => p = ShownText(FirstText(c), PreviewMax)

\* C20 witness: the preview of a text of more than 40 bytes holds its first
\* 40 bytes.
C20_Witness ==
    \E i \in Procs :
        \E e \in 1..Len(pr[i].entries) :
            LET c == pr[i].clip0[pr[i].entries[e].unit]
            IN  /\ Len(FirstText(c)) > PreviewMax
                /\ Len(pr[i].entries[e].preview) = PreviewMax
                /\ pr[i].entries[e].preview = SubSeq(FirstText(c), 1, PreviewMax)

\* C16: CBReadDone returns for every content, and when it has returned its
\* last read delivered no byte or reported an error; a drain without an error
\* leaves the request as the drain taken in one step does, at the end of the
\* content.
C16_DrainTerminates ==
    /\ <>(\A i \in Procs : pr[i].pc \in {"off", "rd_done"})
    /\ [](\A i \in Procs :
            LET s == pr[i]
            IN  s.pc = "rd_done"
                    => /\ s.io.Actual = 0 \/ s.io.Error # 0
                       /\ s.io.Error = 0
                            => /\ s.io = CBReadDone(s.io0, clip[s.unit], "ok")
                               /\ s.io.Offset >= Len(clip[s.unit])
                               /\ ~s.io.rs)

\* C16 witness: the drain of a content of more than two reads has returned
\* at the end of the content without an error.
C16_Witness ==
    \E i \in Procs :
        /\ pr[i].pc = "rd_done"
        /\ Len(clip[pr[i].unit]) > HeaderLen + 2 * DrainLength
        /\ pr[i].io.Error = 0 /\ pr[i].io.Actual = 0
        /\ pr[i].io.Offset = Len(clip[pr[i].unit])

\* C17: the router of either version returns a unit in 1..255 for every tag,
\* and two calls with the same tag return the same unit.
C17_RouterRange ==
    \A i \in Procs :
        pr[i].pc = "rt_done"
            => /\ pr[i].mappedUnit \in 1..255
               /\ pr[i].mappedOld \in 1..255
               /\ \A j \in Procs :
                    pr[j].pc = "rt_done" /\ pr[j].formType = pr[i].formType
                        => /\ pr[j].mappedUnit = pr[i].mappedUnit
                           /\ pr[j].mappedOld = pr[i].mappedOld

\* C17 witness: two callers have routed the tag of four bytes 255, for which
\* the hash of version 1.2 wraps at 2^32.
C17_Witness ==
    /\ \A i \in Procs : pr[i].pc = "rt_done" /\ pr[i].formType = <<255, 255, 255, 255>>
    /\ pr[1].mappedUnit = 209 /\ pr[2].mappedUnit = 209
    /\ pr[1].mappedOld = 53 /\ pr[2].mappedOld = 53

\* C21: a run with a unit above 255 exits with failure from main, with no
\* copy, paste, list or flush and no unit opened; FlushClipboard called with
\* a unit above 255 returns failure without an attempt to open a unit.
C21_BadUnitRejected ==
    \A i \in Procs :
        LET s == pr[i]
        IN  s.unit > UnitLimit
                => /\ s.opens = 0 /\ s.log = <<>>
                   /\ s.tries = [copy |-> 0, paste |-> 0, flush |-> 0]
                   /\ s.copyResult = "none" /\ s.pasteResult = "none"
                   /\ s.seen = <<>> /\ s.total = -1
                   /\ s.pc = "exit" => s.exit = "RETURN_FAIL"
                   /\ IF s.call = "main"
                      THEN s.pc \in {"wait", "main", "exit"} /\ s.flushResult = "none"
                      ELSE /\ s.pc \in {"fl_open", "exit"}
                           /\ s.pc = "exit" => s.flushResult = "RETURN_FAIL"
                   /\ (\A j \in Procs : pr[j].pc \in {"wait", "off"} \/ j = i)
                        => clip = s.clip0 /\ dest = s.dest0

\* C21 witness: FlushClipboard(256) has returned failure, and a run with
\* FLUSH and unit 256 has exited with failure, with no unit opened.
C21_Witness ==
    \E i \in Procs :
        /\ pr[i].unit = UnitLimit + 1 /\ pr[i].pc = "exit" /\ pr[i].opens = 0
        /\ \/ pr[i].call = "FlushClipboard" /\ pr[i].flushResult = "RETURN_FAIL"
           \/ pr[i].call = "main" /\ pr[i].flushMode /\ pr[i].listMode /\ pr[i].paste

\* C22: in a run with COPY and PASTE the paste starts when the copy has
\* returned and closed its unit, the paste is attempted whatever the copy
\* returned, and a paste that succeeds after a copy that succeeded, no call
\* failing, holds what the copy put into the unit.
C22_CopyThenPaste ==
    \A i \in Procs :
        LET s == pr[i]
            both == s.copy # NoFile /\ s.paste /\ ~s.listMode /\ ~s.flushMode
                        /\ s.unit <= UnitLimit /\ s.call = "main"
            inPaste == s.pasteResult # "none" \/ s.tries.paste > 0 \/ s.pc = "ps_check"
        IN  both => /\ inPaste => s.copyResult # "none" /\ s.opens = s.closes + (IF s.open THEN 1 ELSE 0)
                    /\ s.pc = "ps_check" => ~s.open /\ s.iff = "closed"
                    /\ s.pc = "exit" => s.copyResult # "none" /\ s.pasteResult # "none"
                    /\ s.pc = "exit" /\ s.faults = 0 /\ s.copyResult = "RETURN_OK"
                         /\ s.pasteResult = "RETURN_OK"
                         => <<"RETURN_OK", dest>> = PasteOf(s.copy.iff, s.dest0)

\* C22 witness: the paste has succeeded after a copy that failed.
C22_Witness ==
    \E i \in Procs :
        /\ pr[i].copy # NoFile /\ pr[i].paste /\ pr[i].pc = "exit"
        /\ pr[i].copyResult = "RETURN_FAIL" /\ pr[i].pasteResult = "RETURN_OK"
        /\ pr[i].tries.paste = 1

\* C23: copy, paste and flush call OpenClipboard at most once each, and once
\* when they succeed; a call that fails is followed at once by the return of
\* failure, with no device command and no change of a unit or of the file.
C23_OneOpenAttempt ==
    /\ [](\A i \in Procs :
            LET s == pr[i]
            IN  /\ s.tries.copy <= 1 /\ s.tries.paste <= 1 /\ s.tries.flush <= 1
                /\ s.copyResult = "RETURN_OK" => s.tries.copy = 1
                /\ s.pasteResult = "RETURN_OK" => s.tries.paste = 1
                /\ s.flushResult = "RETURN_OK" => s.tries.flush = 1)
    /\ [][\A i \in Procs :
            LET s == pr[i]
                t == pr'[i]
            IN  s.pc \in {"cp_open", "ct_open", "ps_open", "fl_open"}
                    /\ s.tries # t.tries /\ ~t.open
                    => /\ t.log = s.log /\ clip' = clip /\ dest' = dest
                       /\ s.pc \in {"cp_open", "ct_open"}
                            => t.copyResult = "RETURN_FAIL" /\ t.pc \in {"ps_check", "exit"}
                       /\ s.pc = "ps_open"
                            => t.pasteResult = "RETURN_FAIL" /\ t.pc = "exit"
                       /\ s.pc = "fl_open"
                            => t.flushResult = "RETURN_FAIL" /\ t.pc = "exit"]_vars

\* C23 witness: a paste whose OpenClipboard failed has returned failure after
\* a copy that opened the unit once.
C23_Witness ==
    \E i \in Procs :
        /\ pr[i].pasteResult = "RETURN_FAIL" /\ ~pr[i].pasteOpened
        /\ pr[i].tries = [copy |-> 1, paste |-> 1, flush |-> 0]
        /\ pr[i].copyResult = "RETURN_OK" /\ pr[i].opens = 1

\* C24: when a CMD_WRITE of a copy reports no error but accepts fewer bytes
\* than it was given, the copy goes on with a further CMD_WRITE for the
\* remainder: a copy that has returned has, after each such short write,
\* a later CMD_WRITE in its command log.
C24_ShortWriteRetried ==
    \A i \in Procs :
        LET s == pr[i]
        IN  s.copyOpened /\ s.copyResult # "none" /\ ~s.pasteOpened
            => \A k \in 1..Len(s.log) :
                  s.log[k].cmd = "CMD_WRITE" /\ s.log[k].err = 0
                  /\ s.log[k].act < s.log[k].len
                  => \E n \in (k + 1)..Len(s.log) : s.log[n].cmd = "CMD_WRITE"

\* C25: after CopyToClipboard has returned success on the temporary-file
\* path (the file is no text file), the clip of the unit is the interchange
\* file the converter saved: the same bytes in the same number and order,
\* whatever the unit held before; the other units hold what they held.
C25_CommittedIsInterchangeFile ==
    \A i \in Procs :
        LET s == pr[i]
        IN  s.copyResult = "RETURN_OK" /\ s.textResult = "none"
            => /\ Len(clip[s.unit]) = Len(s.copy.iff)
               /\ \A k \in 1..Len(s.copy.iff) : clip[s.unit][k] = s.copy.iff[k]
               /\ \A u \in Units \ {s.unit} : clip[u] = s.clip0[u]

\* C25 witness: a successful copy of a non-text file to a unit that held a
\* longer clip, of which nothing is left.
C25_Witness ==
    \E i \in Procs :
        /\ pr[i].copyResult = "RETURN_OK" /\ pr[i].textResult = "none"
        /\ Len(pr[i].clip0[pr[i].unit]) > Len(pr[i].copy.iff)
        /\ Len(pr[i].copy.iff) > 0
        /\ clip[pr[i].unit] = pr[i].copy.iff

\* C26: FlushClipboard on a unit it could open returns RETURN_OK exactly
\* when its two commands, a CMD_WRITE of length 0 and a CMD_UPDATE, both
\* reported no error.  After RETURN_OK the unit holds the empty clip and
\* every other unit the clip it held; a listing that follows has no line
\* for the unit and a paste from the unit that follows returns RETURN_FAIL.
C26_FlushEmptiesUnit ==
    \A i \in Procs :
        LET s == pr[i]
            both == /\ Len(s.log) = 2
                    /\ s.log[1].cmd = "CMD_WRITE" /\ s.log[1].len = 0
                    /\ s.log[1].err = 0
                    /\ s.log[2].cmd = "CMD_UPDATE" /\ s.log[2].err = 0
        IN  /\ s.flushResult # "none" /\ s.opens = 1
                => (s.flushResult = "RETURN_OK" <=> both)
            /\ s.flushResult = "RETURN_OK"
                => /\ clip[s.unit] = <<>>
                   /\ \A u \in Units \ {s.unit} : clip[u] = s.clip0[u]
                   /\ \A j \in Procs \ {i} :
                        /\ \A e \in 1..Len(pr[j].entries) :
                              pr[j].entries[e].unit # s.unit
                        /\ pr[j].pasteResult # "none" /\ pr[j].unit = s.unit
                              => pr[j].pasteResult = "RETURN_FAIL"

\* C26 witness: a flush of a unit that held a clip returned RETURN_OK, and
\* the listing after it has ended with a line for another unit.
C26_Witness ==
    \E i \in Procs, j \in Procs :
        /\ pr[i].flushResult = "RETURN_OK"
        /\ pr[i].clip0[pr[i].unit] # <<>>
        /\ clip[pr[i].unit] = <<>>
        /\ pr[j].listMode /\ pr[j].pc = "exit" /\ pr[j].total = 1
        /\ pr[j].entries[1].unit # pr[i].unit

\* C27: a line of the listing for unit u whose clip has the FORM type t is
\* flagged "[mapped]" exactly when FormIDToUnit(t) = u; otherwise it shows
\* "maps to" with FormIDToUnit(t).  FormIDToUnit never yields 0, so a line
\* for unit 0 is never flagged.
C27_MappedFlag ==
    \A i \in Procs :
        \A e \in 1..Len(pr[i].entries) :
            LET l == pr[i].entries[e]
                t == Slice(pr[i].clip0[l.unit], 8, 4)
            IN  /\ l.flag = "[mapped]" <=> FormIDToUnit(t) = l.unit
                /\ l.flag # "[mapped]"
                     => l.flag = "maps to" /\ l.mapped = FormIDToUnit(t)
                /\ l.unit = 0 => l.flag = "maps to"

\* C27 witness: a listing that has ended with an unflagged line for unit 0
\* and a flagged line for unit 1, whose clip has a type that maps to 1.
C27_Witness ==
    \E i \in Procs :
        /\ pr[i].listMode /\ pr[i].pc = "exit" /\ pr[i].total = 2
        /\ pr[i].entries[1].unit = 0 /\ pr[i].entries[1].flag = "maps to"
        /\ pr[i].entries[2].unit = 1 /\ pr[i].entries[2].flag = "[mapped]"
        /\ pr[i].entries[2].mapped = 1

\* C28: ListClipboards has at most one unit open at any moment: when it
\* calls OpenClipboard no unit is open, every unit it opened before has been
\* closed, the units it has been through are 0, 1, 2, ... in this order,
\* each one once and none above 255, and the loop is left after unit 255.
C28_ListOneUnitAtATime ==
    \A i \in Procs :
        LET s == pr[i]
            opened == {k \in 1..Len(s.seen) : s.seen[k].opened}
        IN  s.listMode
            => /\ s.opens - s.closes \in {0, 1}
               /\ s.open <=> s.opens = s.closes + 1
               /\ s.pc = "ls_open" => ~s.open
               /\ s.closes = Cardinality(opened)
               /\ \A k \in 1..Len(s.seen) : s.seen[k].unit = k - 1
               /\ Len(s.seen) <= UnitLimit + 1
               /\ s.open => s.lunit = Len(s.seen) /\ s.lunit <= UnitLimit
               /\ s.total # -1 => s.lunit = UnitLimit + 1 /\ ~s.open

\* C28 witness: a listing that has ended after it opened and closed both
\* unit 0 and unit 1.
C28_Witness ==
    \E i \in Procs :
        /\ pr[i].listMode /\ pr[i].pc = "exit" /\ pr[i].total # -1
        /\ pr[i].opens = 2 /\ pr[i].closes = 2
        /\ pr[i].seen[1].opened /\ pr[i].seen[2].opened
        /\ pr[i].lunit = UnitLimit + 1

\* C29: when copy, paste, list or flush returns, with success or with any
\* error, every OpenClipboard of the run so far has had its CloseClipboard
\* and every OpenIFF its CloseIFF, once each, and no unit or stream is open;
\* a unit is never closed over an open stream, and a stream is closed only
\* while its unit is open.
C29_EveryOpenClosedOnce ==
    /\ [](\A i \in Procs :
            LET s == pr[i]
            IN  /\ s.opens - s.closes \in {0, 1}
                /\ s.iffOpens - s.iffCloses \in {0, 1}
                /\ s.open <=> s.opens = s.closes + 1
                /\ (s.iff # "closed") <=> s.iffOpens = s.iffCloses + 1
                /\ s.iff # "closed" => s.open
                /\ s.pc = "exit"
                     => s.opens = s.closes /\ s.iffOpens = s.iffCloses)
    /\ [][\A i \in Procs :
            LET s == pr[i]
                t == pr'[i]
            IN  /\ \/ s.copyResult # t.copyResult
                   \/ s.pasteResult # t.pasteResult
                   \/ s.flushResult # t.flushResult
                   \/ s.total # t.total
                     => /\ t.opens = t.closes /\ t.iffOpens = t.iffCloses
                        /\ ~t.open /\ t.iff = "closed"
                /\ t.iffCloses > s.iffCloses => s.open /\ s.iff # "closed"
                /\ t.closes > s.closes => s.open /\ t.iff = "closed"]_vars

\* C29 witness: a run has ended in which a copy and a paste each opened the
\* unit, the paste opened a stream on it and failed, and both are closed.
C29_Witness ==
    \E i \in Procs :
        /\ pr[i].pc = "exit" /\ pr[i].pasteResult = "RETURN_FAIL"
        /\ pr[i].copyResult # "none"
        /\ pr[i].opens = 2 /\ pr[i].closes = 2
        /\ pr[i].iffOpens >= 1 /\ pr[i].iffCloses = pr[i].iffOpens

\* C30: when OpenIFF is called on a unit handle on which the 12-byte header
\* was read, in PasteFromClipboard or in ListClipboards, the read session of
\* the header has been read to its end, unless a read of CBReadDone reported
\* an error: no session is given up unfinished for the parse.
C30_DrainBeforeOpenIFF ==
    \A i \in Procs : pr[i].dropped => pr[i].drainErr

\* C31: PasteFromClipboard takes the clip of the unit for text only when
\* the header read delivered all 12 bytes of the header and they are FORM,
\* a size and FTXT: a paste that classified its unit as text reads a unit
\* that holds at least 12 bytes.
C31_TextNeedsFullHeader ==
    \A i \in Procs :
        LET s == pr[i]
            c == clip[s.unit]
        IN  s.pasteOpened /\ s.isText
            => /\ Len(c) >= HeaderLen
               /\ Slice(c, 0, 4) = ID_FORM /\ Slice(c, 8, 4) = ID_FTXT

\* The chunk calls of a correctly nested text copy, in their order.
FullTrail ==
    <<(<<"push", ID_FORM>>), (<<"push", ID_CHRS>>), (<<"pop", ID_CHRS>>), (<<"pop", ID_FORM>>)>>

\* The number of entries of kind k among the first n of trail t.
CountOf(t, k, n) == Cardinality({m \in 1..n : t[m][1] = k})

\* C32: in CopyTextToClipboard FORM is pushed before CHRS, every PopChunk
\* takes the innermost open chunk, CHRS before FORM, at no moment more
\* PopChunk calls than successful PushChunk calls have been made, and when
\* CloseIFF is reached with the status of success both chunks have been
\* popped and the stack is empty.
C32_StrictNesting ==
    \A i \in Procs :
        LET s == pr[i]
            t == s.trail
            pushes == CountOf(t, "push", Len(t))
        IN  /\ \A n \in 0..Len(t) : CountOf(t, "pop", n) <= CountOf(t, "push", n)
            /\ pushes <= 2
            /\ s.iff = "write" => Len(s.stk) = pushes - CountOf(t, "pop", Len(t))
            /\ \A n \in 1..pushes : t[n] = FullTrail[n]
            /\ \A n \in (pushes + 1)..Len(t) :
                 t[n] = <<"pop", t[2 * pushes - n + 1][2]>>
            /\ (s.pc \in {"ct_closeiff", "ct_close"} /\ s.res = "RETURN_OK")
                 \/ s.textResult = "RETURN_OK"
                 => t = FullTrail
            /\ s.pc \in {"ct_closeiff", "ct_close"} /\ s.res = "RETURN_OK"
                 => s.stk = <<>>

\* C32 witness: a text copy that returned success after both pushes and
\* both pops.
C32_Witness ==
    \E i \in Procs :
        /\ pr[i].textResult = "RETURN_OK" /\ pr[i].trail = FullTrail
        /\ pr[i].iff = "closed" /\ pr[i].stk = <<>>

\* Process i is in the scan loop of a text paste.
Scanning(i) == pr[i].pc \in {"ps_t_parse", "ps_t_read", "ps_t_fwrite"}

\* C33: the scan loop of a text paste goes on after every IFFERR_EOC and is
\* left only when ParseIFF returned IFFERR_EOF or another error, or when
\* ReadChunkBytes returned an error; a paste that has entered the loop
\* leaves it and returns, whatever the unit holds.
C33_ScanContinuesAndEnds ==
    /\ [][\A i \in Procs :
            /\ Scanning(i) /\ pr'[i].rc = "IFFERR_EOC" /\ pr[i].pc = "ps_t_parse"
                 => pr'[i].pc = "ps_t_parse"
            /\ Scanning(i) /\ ~Scanning(i)'
                 => /\ pr'[i].pc = "ps_t_done"
                    /\ \/ pr[i].pc = "ps_t_parse"
                          /\ pr'[i].rc \notin {"0", "IFFERR_EOC"}
                       \/ pr[i].pc = "ps_t_read" /\ pr'[i].cnt < 0]_vars
    /\ \A i \in Procs : Scanning(i) ~> (pr[i].pasteResult # "none")

\* C33 witness: a paste that went on after the end of a context and has
\* returned success at the end of the stream.
C33_Witness ==
    \E i \in Procs :
        /\ pr[i].pasteResult = "RETURN_OK" /\ pr[i].isText
        /\ pr[i].rc = "IFFERR_EOF" /\ pr[i].clip0[pr[i].unit] = NestedClip

\* Sequence a is the beginning of sequence b.
IsPrefix(a, b) == Len(a) <= Len(b) /\ a = SubSeq(b, 1, Len(a))

\* C34: when a text paste has returned failure after it opened the
\* destination file, the file is there and holds a beginning of the text a
\* successful paste of the unit writes: the payloads of the CHRS chunks in
\* their order, cut off at some byte.
C34_FailedPasteLeavesPrefix ==
    \A i \in Procs :
        LET s == pr[i]
            c == clip[s.unit]
        IN  s.pasteResult = "RETURN_FAIL" /\ s.fileOpened /\ IsTextClip(c)
            => dest.exists /\ IsPrefix(dest.data, Expected(c))

\* The positions inside ListClipboards and inside FlushClipboard.
ListPcs ==
    {"ls_open", "ls_header", "ls_openiff", "ls_stop", "ls_parse", "ls_read",
     "ls_closeiff", "ls_drain", "ls_print", "ls_total"}

FlushPcs == {"fl_open", "fl_write", "fl_update", "fl_close"}

\* C35: a run with a valid unit performs one mode, LIST before FLUSH before
\* COPY and PASTE.  With LIST it lists, and neither flushes, copies nor
\* pastes, and writes to no unit; with FLUSH and no LIST it flushes and
\* neither copies nor pastes; with neither it copies when COPY is given and
\* pastes when PASTE is given; with none of the four requests it opens no
\* unit, sends no command and exits with RETURN_FAIL.
C35_OneMode ==
    \A i \in Procs :
        LET s == pr[i]
            listed == s.pc \in ListPcs \/ s.seen # <<>> \/ s.total # -1
            flushed == s.pc \in FlushPcs \/ s.tries.flush > 0 \/ s.flushResult # "none"
            copied == s.copyResult # "none" \/ s.tries.copy > 0 \/ s.copyOpened
            pasted == s.pasteResult # "none" \/ s.tries.paste > 0 \/ s.pasteOpened
            done == s.pc = "exit" /\ s.unit <= UnitLimit
        IN  s.call = "main" /\ s.pc # "off"
            => /\ s.listMode
                    => /\ s.pc \in {"main", "exit"} \cup ListPcs
                       /\ ~flushed /\ ~copied /\ ~pasted
                       /\ clip = s.clip0 /\ dest = s.dest0
                       /\ ~HasCmd(s.log, "CMD_WRITE") /\ ~HasCmd(s.log, "CMD_UPDATE")
                       /\ done => s.total # -1
               /\ ~s.listMode /\ s.flushMode
                    => /\ s.pc \in {"main", "exit"} \cup FlushPcs
                       /\ ~listed /\ ~copied /\ ~pasted
                       /\ done => s.flushResult # "none"
               /\ ~s.listMode /\ ~s.flushMode
                    => /\ ~listed /\ ~flushed
                       /\ copied => s.copy # NoFile
                       /\ pasted => s.paste
                       /\ done => /\ s.copy # NoFile => s.copyResult # "none"
                                  /\ s.paste => s.pasteResult # "none"
               /\ ~s.listMode /\ ~s.flushMode /\ s.copy = NoFile /\ ~s.paste
                    => /\ s.pc \in {"main", "exit"}
                       /\ s.opens = 0 /\ s.log = <<>>
                       /\ s.pc = "exit" => s.exit = "RETURN_FAIL"

\* C35 witness: a run with LIST, FLUSH, COPY and PASTE has ended with a
\* listing of two lines and nothing else done.
C35_Witness ==
    \E i \in Procs :
        /\ pr[i].listMode /\ pr[i].flushMode /\ pr[i].paste /\ pr[i].copy # NoFile
        /\ pr[i].pc = "exit" /\ pr[i].total = 2
        /\ pr[i].flushResult = "none" /\ pr[i].copyResult = "none"
        /\ pr[i].pasteResult = "none"

\* The positions inside CopyTextToClipboard after its argument check.
TextPcs ==
    {"ct_open", "ct_openiff", "ct_pushform", "ct_pushchrs", "ct_write",
     "ct_popchrs", "ct_popform", "ct_errpop", "ct_closeiff", "ct_close"}

\* C36: CopyTextToClipboard called with a text of length zero returns
\* RETURN_FAIL with no OpenClipboard, no command and no change of a unit.
\* CopyToClipboard calls it only with a text of one byte or more: for a text
\* file with an empty text buffer the function is not called, the file goes
\* through SaveDTObjectA and the temporary file.
C36_EmptyTextNotCopiedAsText ==
    \A i \in Procs :
        LET s == pr[i]
            inText == s.pc \in TextPcs \cup {"ct_check"} \/ s.textResult # "none"
        IN  /\ s.call = "CopyTextToClipboard" /\ Len(s.buf) = 0
                => /\ s.pc \notin TextPcs
                   /\ s.textResult \in {"none", "RETURN_FAIL"}
                   /\ s.tries.copy = 0 /\ s.opens = 0 /\ s.log = <<>>
                   /\ clip = s.clip0
            /\ s.pc \in TextPcs \/ s.textOpened => Len(s.buf) > 0
            /\ s.call = "main"
                => /\ inText => Len(s.buf) > 0 /\ s.buf = s.copy.text
                   /\ s.copy.kind = "text" /\ Len(s.copy.text) = 0
                        => /\ ~inText
                           /\ s.copyResult = "RETURN_OK" => clip[s.unit] = s.copy.iff
                           /\ s.copyResult # "none" /\ s.faults = 0
                                => s.copyResult = "RETURN_OK" /\ s.log[1].len = Len(s.copy.iff)

\* C36 witness: a run has copied a text file with an empty text buffer
\* through the temporary file, and CopyTextToClipboard was not called.
C36_Witness ==
    \E i \in Procs :
        /\ pr[i].call = "main" /\ pr[i].copy.kind = "text" /\ pr[i].copy.text = <<>>
        /\ pr[i].copyResult = "RETURN_OK" /\ pr[i].textResult = "none"
        /\ clip[pr[i].unit] = pr[i].copy.iff

\* C37: when CopyToClipboard has returned, the temporary file the converter
\* wrote is there no more, whether the copy succeeded, the unit could not be
\* opened, or the file could not be opened, was empty, could not be read, or
\* the write or the commit failed; the file exists only from SaveDTObjectA
\* to the return.
C37_TempFileDeleted ==
    \A i \in Procs :
        LET s == pr[i]
        IN  /\ s.copyResult # "none" => ~s.temp.exists
            /\ s.temp.exists => s.pc \in {"cp_open", "cp_temp", "cp_write",
                                          "cp_update", "cp_close"}
            /\ s.pc \in {"cp_open", "cp_temp", "cp_write", "cp_update", "cp_close"}
                 => s.temp = Present(s.copy.iff)

\* C37 witness: a copy has returned failure after the temporary file was
\* written and the unit could not be opened, and the file is gone.
C37_Witness ==
    \E i \in Procs :
        /\ pr[i].copyResult = "RETURN_FAIL" /\ pr[i].textResult = "none"
        /\ pr[i].tries.copy = 1 /\ ~pr[i].copyOpened
        /\ ~pr[i].temp.exists

\* C38: a text paste that returned RETURN_OK, no call having failed, has
\* found a CHRS chunk in the FORM FTXT of the unit: a FORM FTXT without a
\* CHRS chunk is not pasted with the status of success.
C38_TextPasteNeedsChrs ==
    \A i \in Procs :
        LET s == pr[i]
            c == clip[s.unit]
        IN  /\ s.pasteResult = "RETURN_OK" /\ s.isText /\ s.faults = 0
            /\ IsTextClip(c) /\ c # NestedClip
            => \E cs \in KnownTexts :
                  /\ FormOf(ID_FTXT, cs) = c
                  /\ \E k \in 1..Len(cs) : cs[k][1] = ID_CHRS

\* The unit the formula names for a tag, worked out byte by byte: h has the
\* bytes tag[1], tag[2], tag[3], tag[4] from the lowest up; d0..d3 are the
\* bytes of (h * 209) mod 2^32, found with carries; h >> 16 has the bytes
\* tag[3] and tag[4]; a word modulo 255 is the sum of its bytes modulo 255.
ClaimedUnit(tag) ==
    LET p0 == tag[1] * 209
        p1 == (tag[2] * 209) + (p0 \div 256)
        p2 == (tag[3] * 209) + (p1 \div 256)
        p3 == (tag[4] * 209) + (p2 \div 256)
        x0 == Xor(p0 % 256, tag[3])
        x1 == Xor(p1 % 256, tag[4])
    IN  ((x0 + x1 + (p2 % 256) + (p3 % 256)) % 255) + 1

\* C39: FormIDToUnit of version 1.2 returns
\* (((h * 209) mod 2^32) XOR (h >> 16)) mod 255 + 1, where h holds the first
\* byte of the tag in bits 0..7 and the last in bits 24..31, the product
\* wraps at 32 bits and the shift is taken of h itself.
C39_RouterFormula ==
    \A i \in Procs :
        pr[i].pc = "rt_done" => pr[i].mappedUnit = ClaimedUnit(pr[i].formType)

\* C39 witness: the tag FTXT has been routed to unit 18, where a shift of
\* the product would have given 69.
C39_Witness ==
    \E i \in Procs :
        /\ pr[i].pc = "rt_done" /\ pr[i].formType = <<70, 84, 88, 84>>
        /\ pr[i].mappedUnit = 18 /\ ClaimedUnit(pr[i].formType) = 18

====
